---- MODULE Spec2Model ----
(***************************************************************************)
(* State-machine model of the hybrid voice satellite gateway:              *)
(*   server/esphome/frame_helper.py  (frame codec)                         *)
(*   server/esphome/api_server.py    (per-connection protocol session)     *)
(*   server/esphome/protocol.py      (application-level handler)           *)
(*   server/websocket_server.py      (browser client hub)                  *)
(* Bytes are naturals 0..255, byte strings are sequences of bytes.         *)
(***************************************************************************)
EXTENDS Integers, Sequences, FiniteSets, TLC

(* ------------------------------ bounds -------------------------------- *)
\* longest payload of the enumerated short payloads of the codec runs
MaxPayloadLen == 2
\* frames the hub sends in a run of Spec, over all its connections
MaxHubFrames == 3
\* frames the hub sends in a run of SpecHub, over all its connections
MaxAppFrames == 2
\* binary (microphone) messages the browsers send in a run
MaxMic == 1
\* control (text) messages the browsers send in a run
MaxControl == 1
\* the media-player commands of a run of SpecPlay
MaxPlay == 1
\* the frames of a stream of SpecStream
MaxStream == 3
\* longest run of garbage bytes put in front of a frame
MaxGarbage == 2
\* longest of the enumerated identifiers given to the wake-word maps
MaxIdLen == 2
\* maps applied one after the other in a run of SpecMap
MaxMapOps == 2

(* --------------------------- byte helpers ----------------------------- *)
\* Python slice buffer[a:b] with 0-based a, b already clipped by the caller
Slice(buffer, a, b) == SubSeq(buffer, a + 1, b)

\* Python slice buffer[a:]
SliceFrom(buffer, a) == SubSeq(buffer, a + 1, Len(buffer))

(* ------------------- frame_helper.py: APIFrameHelper ------------------- *)
RECURSIVE _encode_varint_drop(_)
\* faulty variant: the continuation bit is not set on the low groups
_encode_varint_drop(value) ==
    IF value > 127
    THEN <<value % 128>> \o _encode_varint_drop(value \div 128)
    ELSE <<value>>

RECURSIVE _encode_varint(_)
\* while value > 0x7f: append (value & 0x7f) | 0x80; value >>= 7; append value
_encode_varint(value) ==
    IF value > 127
    THEN <<(value % 128) + 128>> \o _encode_varint(value \div 128)
    ELSE <<value>>

\* b'\x00' + varint(len(data)) + varint(msg_type) + data
encode_frame(data, msg_type) ==
    <<0>> \o _encode_varint(Len(data)) \o _encode_varint(msg_type) \o data

RECURSIVE _decode_varint_loop(_, _, _, _)
\* one iteration of the while loop; mult = 2^shift
_decode_varint_loop(buffer, offset, value, mult) ==
    IF offset >= Len(buffer)
    THEN [ok |-> FALSE, value |-> 0, offset |-> offset]       \* IndexError
    ELSE LET byte == buffer[offset + 1]
             v2   == value + (byte % 128) * mult
         IN  IF byte < 128
             THEN [ok |-> TRUE, value |-> v2, offset |-> offset + 1]
             ELSE _decode_varint_loop(buffer, offset + 1, v2, mult * 128)

\* returns (value, new_offset), or ok = FALSE where the code raises IndexError
_decode_varint(buffer, offset) == _decode_varint_loop(buffer, offset, 0, 1)

\* index of the first 0x00 of the buffer (0-based), Len(buffer) when none
IndexOfZero(buffer) ==
    IF \E i \in 1..Len(buffer) : buffer[i] = 0
    THEN (CHOOSE i \in 1..Len(buffer) :
             buffer[i] = 0 /\ \A j \in 1..(i - 1) : buffer[j] # 0) - 1
    ELSE Len(buffer)

\* the result of read_packet when it returns None, leaving `buffer` behind
NoPacket(buffer) == [found |-> FALSE, type |-> 0, data |-> <<>>, buffer |-> buffer]

\* faulty variant: the `len(self._buffer) < total_size` test is missing, so the slice
\* returns whatever part of the payload has arrived
read_packet_nocheck(buffer0) ==
    IF buffer0 = <<>> THEN NoPacket(buffer0)
    ELSE IF buffer0[1] # 0 /\ IndexOfZero(buffer0) = Len(buffer0)
    THEN NoPacket(<<>>)
    ELSE
      LET buffer == IF buffer0[1] # 0
                    THEN SliceFrom(buffer0, IndexOfZero(buffer0)) ELSE buffer0
      IN  IF Len(buffer) < 3 THEN NoPacket(buffer)
          ELSE
            LET l == _decode_varint(buffer, 1)
                t == _decode_varint(buffer, l.offset)
                total_size == t.offset + l.value
                stop == IF total_size > Len(buffer) THEN Len(buffer) ELSE total_size
            IN  IF ~l.ok \/ ~t.ok THEN NoPacket(buffer)
                ELSE [found |-> TRUE, type |-> t.value,
                      data |-> Slice(buffer, t.offset, stop),
                      buffer |-> SliceFrom(buffer, stop)]

\* faulty variant: a buffer that does not start with 0x00 is left as it is
read_packet_noresync(buffer0) ==
    IF buffer0 = <<>> THEN NoPacket(buffer0)
    ELSE IF buffer0[1] # 0 THEN NoPacket(buffer0)
    ELSE IF Len(buffer0) < 3 THEN NoPacket(buffer0)
    ELSE
      LET l == _decode_varint(buffer0, 1)
          t == _decode_varint(buffer0, l.offset)
          total_size == t.offset + l.value
      IN  IF ~l.ok \/ ~t.ok THEN NoPacket(buffer0)
          ELSE IF Len(buffer0) < total_size THEN NoPacket(buffer0)
          ELSE [found |-> TRUE, type |-> t.value,
                data |-> Slice(buffer0, t.offset, total_size),
                buffer |-> SliceFrom(buffer0, total_size)]

\* read_packet: (type, data) of one complete frame and the buffer left, or None
read_packet(buffer0) ==
    IF buffer0 = <<>> THEN NoPacket(buffer0)
    ELSE IF buffer0[1] # 0 /\ IndexOfZero(buffer0) = Len(buffer0)
    THEN NoPacket(<<>>)                         \* no 0x00 at all: buffer dropped
    ELSE
      LET buffer == IF buffer0[1] # 0
                    THEN SliceFrom(buffer0, IndexOfZero(buffer0)) ELSE buffer0
      IN  IF Len(buffer) < 3 THEN NoPacket(buffer)
          ELSE
            LET l == _decode_varint(buffer, 1)
                t == _decode_varint(buffer, l.offset)
                total_size == t.offset + l.value
            IN  IF ~l.ok \/ ~t.ok THEN NoPacket(buffer)        \* except IndexError
                ELSE IF Len(buffer) < total_size THEN NoPacket(buffer)
                ELSE [found |-> TRUE, type |-> t.value,
                      data |-> Slice(buffer, t.offset, total_size),
                      buffer |-> SliceFrom(buffer, total_size)]

\* faulty variant: the chunk replaces the buffer
feed_data_replace(buffer, data) == data

\* feed_data: self._buffer += data
feed_data(buffer, data) == buffer \o data

(* --------------- protobuf wire format (ParseFromString) ---------------- *)
\* The payload parsers of api_pb2: a message is a run of fields, each a varint
\* tag (field number * 8 + wire type) followed by a varint (wire type 0), a
\* length-delimited byte string (2), 8 bytes (1) or 4 bytes (5).  A truncated
\* field, field number 0 or another wire type raises DecodeError (ok = FALSE).
PbError == [ok |-> FALSE, fields |-> <<>>]

RECURSIVE PbFields(_, _, _)
PbFields(data, offset, acc) ==
    IF offset >= Len(data) THEN [ok |-> TRUE, fields |-> acc]
    ELSE
      LET tag == _decode_varint_loop(data, offset, 0, 1)
          num == tag.value \div 8
          wt  == tag.value % 8
      IN  IF ~tag.ok \/ num = 0 THEN PbError
          ELSE IF wt = 0 THEN
            LET v == _decode_varint_loop(data, tag.offset, 0, 1)
            IN  IF ~v.ok THEN PbError
                ELSE PbFields(data, v.offset,
                       Append(acc, [num |-> num, wt |-> 0, int |-> v.value, bytes |-> <<>>]))
          ELSE IF wt = 2 THEN
            LET l == _decode_varint_loop(data, tag.offset, 0, 1)
            IN  IF ~l.ok \/ l.offset + l.value > Len(data) THEN PbError
                ELSE PbFields(data, l.offset + l.value,
                       Append(acc, [num |-> num, wt |-> 2, int |-> 0,
                                    bytes |-> Slice(data, l.offset, l.offset + l.value)]))
          ELSE IF wt \in {1, 5} THEN
            LET n == IF wt = 1 THEN 8 ELSE 4
            IN  IF tag.offset + n > Len(data) THEN PbError
                ELSE PbFields(data, tag.offset + n,
                       Append(acc, [num |-> num, wt |-> wt, int |-> 0,
                                    bytes |-> Slice(data, tag.offset, tag.offset + n)]))
          ELSE PbError

\* msg.ParseFromString(data)
ParseFromString(data) == PbFields(data, 0, <<>>)

\* the occurrences of field `num` with wire type `wt`, in wire order
PbOccurrences(fields, num, wt) ==
    SelectSeq(fields, LAMBDA f : f.num = num /\ f.wt = wt)

\* a singular string/bytes field: the last occurrence wins, default empty
PbBytes(fields, num) ==
    LET occ == PbOccurrences(fields, num, 2)
    IN  IF occ = <<>> THEN <<>> ELSE occ[Len(occ)].bytes

\* a singular varint field (bool, enum, uint32): last occurrence, default 0
PbInt(fields, num) ==
    LET occ == PbOccurrences(fields, num, 0)
    IN  IF occ = <<>> THEN 0 ELSE occ[Len(occ)].int

\* a repeated string field: every occurrence, in order
PbRepeated(fields, num) ==
    LET occ == PbOccurrences(fields, num, 2)
    IN  [i \in 1..Len(occ) |-> occ[i].bytes]

\* a length-delimited field as it is put on the wire (lengths below 128)
PbLenField(num, bytes) == <<num * 8 + 2, Len(bytes)>> \o bytes

\* a varint field as it is put on the wire (values below 128)
PbIntField(num, v) == <<num * 8, v>>

(* ------------------------- identifiers (ASCII) ------------------------- *)
\* "alexa"
alexa == <<97, 108, 101, 120, 97>>
\* "okay_nabu"
okay_nabu == <<111, 107, 97, 121, 95, 110, 97, 98, 117>>
\* "_v0.1"
v01 == <<95, 118, 48, 46, 49>>
\* "alexa_v0.1"
alexa_v01 == alexa \o v01
\* "okay_nabu_v0.1"
okay_nabu_v01 == okay_nabu \o v01

(* ---------------- protocol.py: wake-word identifier maps --------------- *)
\* _map_ww_to_client: HA id -> client id, unknown ids unchanged
_map_ww_to_client(ha_ww) ==
    IF ha_ww = alexa THEN alexa_v01
    ELSE IF ha_ww = okay_nabu THEN okay_nabu_v01
    ELSE ha_ww

\* faulty variant: the two table rows are crossed
_map_ww_to_ha_crossed(client_ww) ==
    IF client_ww = alexa_v01 THEN okay_nabu
    ELSE IF client_ww = okay_nabu_v01 THEN alexa
    ELSE client_ww

\* _map_ww_to_ha: client id -> HA id, unknown ids unchanged
_map_ww_to_ha(client_ww) ==
    IF client_ww = alexa_v01 THEN alexa
    ELSE IF client_ww = okay_nabu_v01 THEN okay_nabu
    ELSE client_ww

(* ------------------------------- state --------------------------------- *)
\* the device (hub) connections and the browser connections of a run
Sessions == {"A", "B"}
Clients == {"c1", "c2"}
\* self.protocol = None
NoSession == "None"

VARIABLES
    \* ESPHomeServerProtocol, one per device connection
    transport,          \* "none" (not accepted yet), "open", "closed"
    authenticated,      \* self._authenticated
    buffer,             \* self._frame_helper._buffer
    written,            \* what transport.write was given, frame by frame
    \* ESPHomeProtocolHandler
    protocol,           \* self.protocol: the current session, or NoSession
    connected,          \* self._connected
    websocket_server,   \* self.websocket_server is set
    current_wake_word,  \* [set |-> hasattr(self, 'current_wake_word'), value]
    playbacks,          \* the _play_media_url tasks created
    \* WebSocketServer
    clients,            \* self.clients
    ws,                 \* each browser connection: "none", "open", "closed", "done"
    wsout,              \* what each browser connection was sent
    \* the event loop
    tasks,              \* coroutines handed to run_coroutine_threadsafe, FIFO
    \* the peers and the history of the run
    wire,               \* bytes the hub has sent that were not received yet
    nsent,              \* frames the hub has sent
    nmic,               \* binary messages the browsers have sent
    handled,            \* per session, the packets given to _handle_packet
    npackets,           \* per session, the packets the last data_received handled
    scheduled,          \* every coroutine ever scheduled on the loop
    bcastLog,           \* every broadcast that has run, with its outcome
    \* WebSocketServer, the token handshake
    auth_token,         \* self.auth_token, NoToken when none is configured
    wsclose,            \* the code each browser connection was closed with, 0: none
    control,            \* the control (text) messages the browsers have sent
    first_message,      \* per browser connection, what authenticate received
    server,             \* the WebSocket server: running, closing (stop() under way), stopped
    \* the wake-word maps exercised alone
    mw0, mw, mops,      \* the input, the current value, the maps applied
    \* the codec exercised alone
    cframes, cstream, cbuf, cout, cfeeds, creads, cidle,
    cgarbage            \* the bytes put in front of the encoded frame

sysvars == <<transport, authenticated, buffer, written, protocol, connected,
             websocket_server, current_wake_word, playbacks, clients, ws, wsout,
             tasks, wire, nsent, nmic, handled, npackets, scheduled, bcastLog,
             auth_token, wsclose, control, first_message, server>>
\* what the device-side callbacks and the coroutines of the loop never touch
hubvars == <<auth_token, wsclose, control, first_message, server>>
mapvars == <<mw0, mw, mops>>
codecvars == <<cframes, cstream, cbuf, cout, cfeeds, creads, cidle, cgarbage>>
purevars == <<codecvars, mapvars>>
vars == <<sysvars, purevars>>

\* no token: server_config.get('auth_token') of a configuration without one
NoToken == "None"
\* authenticate has received nothing on the connection
NoMessage == [json |-> "none", type |-> "", token |-> NoToken]

\* the gateway's state as one value, so that a handler is a function of it;
\* `by` names whose request is being handled ("" outside a handler)
Pack(by) ==
    [transport |-> transport, authenticated |-> authenticated, written |-> written,
     protocol |-> protocol, connected |-> connected,
     websocket_server |-> websocket_server,
     current_wake_word |-> current_wake_word, playbacks |-> playbacks,
     clients |-> clients, ws |-> ws, wsout |-> wsout, tasks |-> tasks,
     handled |-> handled, scheduled |-> scheduled, bcastLog |-> bcastLog,
     by |-> by]

Unpack(st) ==
    /\ transport' = st.transport
    /\ authenticated' = st.authenticated
    /\ written' = st.written
    /\ protocol' = st.protocol
    /\ connected' = st.connected
    /\ websocket_server' = st.websocket_server
    /\ current_wake_word' = st.current_wake_word
    /\ playbacks' = st.playbacks
    /\ clients' = st.clients
    /\ ws' = st.ws
    /\ wsout' = st.wsout
    /\ tasks' = st.tasks
    /\ handled' = st.handled
    /\ scheduled' = st.scheduled
    /\ bcastLog' = st.bcastLog

(* ------------------- api_server.py: ESPHomeServerProtocol -------------- *)
\* transport.write(data): a closed transport takes no more frames
transport_write(st, t, msg, msg_type) ==
    IF st.transport[t] = "open"
    THEN [st EXCEPT !.written[t] =
             Append(@, [type |-> msg_type, msg |-> msg, by |-> st.by])]
    ELSE st

\* _send_message: transport.write(encode_frame(msg, msg_type))
_send_message(st, s, msg, msg_type) == transport_write(st, s, msg, msg_type)

\* send_message: the public name of _send_message
send_message(st, s, msg, msg_type) == _send_message(st, s, msg, msg_type)

HelloResponse ==
    [api_version_major |-> 2, api_version_minor |-> 10,
     server_info |-> "HybridSatellite", name |-> "hybrid-satellite"]

AuthenticationResponse == [invalid_password |-> FALSE]

\* pb2.PingResponse(), pb2.DisconnectResponse(), ...: messages without fields
EmptyMessage == [empty |-> TRUE]

_handle_hello(st, s, req) == _send_message(st, s, HelloResponse, 2)

\* faulty variant: the response is sent but the session is not marked authenticated
_handle_connect_noauth(st, s, req) ==
    _send_message(st, s, AuthenticationResponse, 4)

_handle_connect(st, s, req) ==
    _send_message([st EXCEPT !.authenticated[s] = TRUE], s,
                  AuthenticationResponse, 4)

\* faulty variant: the transport is closed before the response is written
_handle_disconnect_closefirst(st, s) ==
    _send_message([st EXCEPT !.transport[s] = "closed"], s, EmptyMessage, 6)

_handle_disconnect(st, s) ==
    LET st1 == _send_message(st, s, EmptyMessage, 6)
    IN  [st1 EXCEPT !.transport[s] = "closed"]

(* ------------------ websocket_server.py: WebSocketServer --------------- *)
\* The class defines notify_start_listening, broadcast_audio, ... and no
\* broadcast_message: evaluating self.websocket_server.broadcast_message
\* raises AttributeError.
broadcast_message_defined == FALSE

\* asyncio.gather(*sends, return_exceptions): every send is started; the first
\* exception is raised to the caller unless return_exceptions is set
gather(failed, return_exceptions) ==
    [raised |-> (~return_exceptions /\ failed # {})]

\* faulty variant: gather without return_exceptions=True
broadcast_audio_propagate(st, audio_data) ==
    IF st.clients = {} THEN st
    ELSE
      LET ok == {c \in st.clients : st.ws[c] = "open"}
          g  == gather(st.clients \ ok, FALSE)
      IN  [st EXCEPT
             !.wsout = [c \in Clients |->
                          IF c \in ok
                          THEN Append(@[c], [kind |-> "binary", data |-> audio_data])
                          ELSE @[c]],
             !.bcastLog = Append(@, [data |-> audio_data, targets |-> st.clients,
                                     sent |-> ok, raised |-> g.raised, by |-> st.by])]

\* broadcast_audio: client.send(audio_data) for every client in self.clients,
\* gathered with return_exceptions=True.  A send on a connection that has
\* closed raises ConnectionClosed.
broadcast_audio(st, audio_data) ==
    IF st.clients = {} THEN st
    ELSE
      LET ok == {c \in st.clients : st.ws[c] = "open"}
          g  == gather(st.clients \ ok, TRUE)
      IN  [st EXCEPT
             !.wsout = [c \in Clients |->
                          IF c \in ok
                          THEN Append(@[c], [kind |-> "binary", data |-> audio_data])
                          ELSE @[c]],
             !.bcastLog = Append(@, [data |-> audio_data, targets |-> st.clients,
                                     sent |-> ok, raised |-> g.raised, by |-> st.by])]

(* ------------------- protocol.py: ESPHomeProtocolHandler --------------- *)
\* asyncio.run_coroutine_threadsafe(coro, self.loop): the coroutine becomes a
\* task of the loop and the caller goes on
run_coroutine_threadsafe(st, coro) ==
    [st EXCEPT !.tasks = Append(@, coro), !.scheduled = Append(@, coro)]

\* faulty variant: the session that connected first stays the current one
on_connect_first(st, s) ==
    [st EXCEPT !.protocol = IF @ = NoSession THEN s ELSE @, !.connected = TRUE]

\* on_connect
on_connect(st, s) == [st EXCEPT !.protocol = s, !.connected = TRUE]

\* _send: to self.protocol, the session that connected last
_send(st, msg, msg_type) ==
    IF st.protocol # NoSession
    THEN send_message(st, st.protocol, msg, msg_type)
    ELSE st

DeviceInfoResponse ==
    [mac_address |-> "02:00:00:00:00:01", name |-> "Hybrid Voice Assistant",
     model |-> "Generic", manufacturer |-> "ESPHome",
     project_name |-> "hybrid.voice_assistant", project_version |-> "1.0.0",
     esphome_version |-> "2024.10.2", voice_assistant_feature_flags |-> 63]

_handle_device_info(st) == _send(st, DeviceInfoResponse, 10)

\* the discovery messages, in the order they are sent: <<message type, message>>
ListEntitiesResponses ==
    << <<63, [key |-> 1, object_id |-> "hybrid_voice_assistant_speaker",
              name |-> "Hybrid Voice Assistant Speaker", supports_pause |-> TRUE,
              feature_flags |-> 1200653,
              supported_formats |-> <<[format |-> "wav", sample_rate |-> 16000,
                                       num_channels |-> 1, sample_bytes |-> 2]>>]>>,
       <<52, [key |-> 2, object_id |-> "pipeline", name |-> "Pipeline",
              entity_category |-> 1, options |-> <<"default">>]>>,
       <<17, [key |-> 4, object_id |-> "mute", name |-> "Mute Microphone",
              entity_category |-> 1]>>,
       <<12, [key |-> 5, object_id |-> "assist_active", name |-> "Assist Active",
              entity_category |-> 2]>>,
       <<19, EmptyMessage>> >>

\* the initial states _handle_subscribe_states sends: <<message type, message>>
SubscribeStatesResponses ==
    << <<64, [key |-> 1, state |-> 1, volume |-> "0.5", muted |-> FALSE]>>,
       <<53, [key |-> 2, state |-> "default"]>>,
       <<53, [key |-> 3, state |-> "okay_nabu"]>>,
       <<26, [key |-> 4, state |-> FALSE]>>,
       <<21, [key |-> 5, state |-> FALSE]>> >>

RECURSIVE _send_all(_, _)
\* one _send per message, in order
_send_all(st, msgs) ==
    IF msgs = <<>> THEN st
    ELSE _send_all(_send(st, Head(msgs)[2], Head(msgs)[1]), Tail(msgs))

\* faulty variant: the ListEntitiesDone sentinel is not sent
_handle_list_entities_nodone(st) ==
    _send_all(st, SubSeq(ListEntitiesResponses, 1, 4))

_handle_list_entities(st) == _send_all(st, ListEntitiesResponses)

_handle_subscribe_states(st) == _send_all(st, SubscribeStatesResponses)

\* send_audio_chunk: only `self.protocol and self._connected` is tested
send_audio_chunk(st, chunk) ==
    IF st.protocol # NoSession /\ st.connected
    THEN _send(st, [data |-> chunk], 106)
    ELSE st

\* the VoiceAssistantRequest of initiate_pipeline
VoiceAssistantRequest(wake_word_phrase, flags) ==
    [start |-> TRUE, wake_word_phrase |-> wake_word_phrase, flags |-> flags,
     audio_settings |-> [noise_suppression_level |-> 0, auto_gain |-> 0,
                         volume_multiplier |-> "1.0"]]

\* faulty variant: the client's identifier is sent as it came
initiate_pipeline_unmapped(st, wake_word) ==
    _send(st, VoiceAssistantRequest(wake_word, 0), 90)

\* initiate_pipeline; wake_word is a string, <<>> for None and for ""
\* (`if wake_word:` leaves wake_word_phrase at its default, the empty string)
initiate_pipeline(st, wake_word) ==
    LET ha_ww == _map_ww_to_ha(wake_word)
    IN  _send(st, VoiceAssistantRequest(IF wake_word # <<>> THEN ha_ww ELSE <<>>, 0),
              90)

\* faulty variant: the default is taken although a selection was made
_handle_voice_assistant_configuration_request_default(st) ==
    _send([st EXCEPT !.current_wake_word = [set |-> TRUE, value |-> okay_nabu_v01]],
          [available_wake_words |->
               <<[id |-> okay_nabu, wake_word |-> okay_nabu],
                 [id |-> alexa, wake_word |-> alexa]>>,
           active_wake_words |-> <<okay_nabu>>,
           max_active_wake_words |-> 1], 122)

\* _handle_voice_assistant_configuration_request
_handle_voice_assistant_configuration_request(st) ==
    LET cw  == IF st.current_wake_word.set
               THEN st.current_wake_word.value ELSE okay_nabu_v01
        st1 == [st EXCEPT !.current_wake_word = [set |-> TRUE, value |-> cw]]
        resp == [available_wake_words |->
                     <<[id |-> okay_nabu, wake_word |-> okay_nabu],
                       [id |-> alexa, wake_word |-> alexa]>>,
                 active_wake_words |-> <<_map_ww_to_ha(cw)>>,
                 max_active_wake_words |-> 1]
    IN  _send(st1, resp, 122)

\* the config_update message of _handle_voice_assistant_set_configuration
ConfigUpdate(client_ww) == [type |-> "config_update", wake_word |-> client_ww]

\* _handle_voice_assistant_set_configuration; req holds the parsed fields.
\* (VoiceAssistantSetConfiguration has the repeated field active_wake_words
\* only, so the hasattr(req, 'active_wake_word') branch is not taken.)
_handle_voice_assistant_set_configuration(st, req) ==
    LET active_wake_words == PbRepeated(req, 1)
    IN  IF active_wake_words = <<>> THEN st            \* warning, return
        ELSE
          LET ha_ww == active_wake_words[1]
              st1 == [st EXCEPT !.current_wake_word =
                         [set |-> TRUE, value |-> _map_ww_to_client(ha_ww)]]
          IN  IF st1.websocket_server /\ ~broadcast_message_defined
              THEN st1                                  \* AttributeError
              ELSE
                LET st2 == IF st1.websocket_server
                           THEN run_coroutine_threadsafe(st1,
                                  [kind |-> "broadcast_message",
                                   data |-> ConfigUpdate(st1.current_wake_word.value),
                                   by |-> st1.by])
                           ELSE st1
                IN  _handle_voice_assistant_configuration_request(st2)

\* the VoiceAssistantEventData items of an event, each parsed: name 1, value 2
EventItems(event) ==
    LET items == PbRepeated(event, 2)
    IN  [i \in 1..Len(items) |-> ParseFromString(items[i])]

\* event_data = {item.name: item.value for item in event.data}, as the set of
\* its (name, value) pairs: a later item replaces an earlier one of its name
EventData(event) ==
    LET items == EventItems(event)
    IN  {<<PbBytes(items[i].fields, 1), PbBytes(items[i].fields, 2)>> :
            i \in {j \in 1..Len(items) :
                     \A k \in (j + 1)..Len(items) :
                        PbBytes(items[k].fields, 1) # PbBytes(items[j].fields, 1)}}

\* the voice_event message built from an event
VoiceEvent(event) ==
    [type |-> "voice_event", event_type |-> PbInt(event, 1), data |-> EventData(event)]

\* faulty variant: the raw frame payload is broadcast instead of audio.data
on_message_audio_raw(st, data) ==
    LET audio == ParseFromString(data)
    IN  IF ~audio.ok THEN st
        ELSE IF st.websocket_server
        THEN run_coroutine_threadsafe(st,
               [kind |-> "broadcast_audio", data |-> data, by |-> st.by])
        ELSE st

\* on_message, msg_type == 106: VoiceAssistantAudio (data is field 1)
on_message_audio(st, data) ==
    LET audio == ParseFromString(data)
    IN  IF ~audio.ok THEN st                            \* DecodeError, logged
        ELSE IF st.websocket_server
        THEN run_coroutine_threadsafe(st,
               [kind |-> "broadcast_audio", data |-> PbBytes(audio.fields, 1),
                by |-> st.by])
        ELSE st

\* on_message, msg_type == 92: VoiceAssistantEventResponse
on_message_event(st, data) ==
    LET event == ParseFromString(data)
    IN  IF ~event.ok THEN st
        ELSE IF \E i \in 1..Len(EventItems(event.fields)) :
                   ~EventItems(event.fields)[i].ok THEN st
        ELSE IF ~st.websocket_server THEN st
        ELSE IF ~broadcast_message_defined THEN st      \* AttributeError, logged
        ELSE run_coroutine_threadsafe(st,
               [kind |-> "broadcast_message", data |-> VoiceEvent(event.fields),
                by |-> st.by])

\* the MediaPlayerStateResponse of _play_media_url, state 2 (PLAYING) and
\* then the same message with state 1 (IDLE)
MediaPlayerState(state) ==
    [key |-> 1, state |-> state, volume |-> "0.5", muted |-> FALSE]

\* faulty variant: a failed fetch resets the media player to IDLE
_play_media_url_fetch_reset(st, i, status, data) ==
    IF status = 200
    THEN [st EXCEPT !.playbacks[i].pc = "fetched", !.playbacks[i].data = data]
    ELSE _send([st EXCEPT !.playbacks[i].pc = "failed"], MediaPlayerState(1), 64)

\* _play_media_url, session.get(url) and resp.read(): status 200 with the
\* bytes, another status (logged), or an exception (status 0; logged)
_play_media_url_fetch(st, i, status, data) ==
    IF status = 200
    THEN [st EXCEPT !.playbacks[i].pc = "fetched", !.playbacks[i].data = data]
    ELSE [st EXCEPT !.playbacks[i].pc = "failed"]

\* _play_media_url, await self.websocket_server.broadcast_audio(data)
_play_media_url_broadcast(st, i) ==
    LET st1 == [st EXCEPT !.playbacks[i].pc = "broadcast"]
    IN  IF st1.websocket_server
        THEN broadcast_audio(st1, st1.playbacks[i].data)
        ELSE st1

\* faulty variant: the state is published as IDLE at once
_play_media_url_playing_idle(st, i) ==
    _send([st EXCEPT !.playbacks[i].pc = "playing"], MediaPlayerState(1), 64)

\* _play_media_url, the PLAYING state is sent; asyncio.sleep(2) follows
_play_media_url_playing(st, i) ==
    _send([st EXCEPT !.playbacks[i].pc = "playing"], MediaPlayerState(2), 64)

\* _play_media_url, after the sleep: the IDLE state is sent
_play_media_url_idle(st, i) ==
    _send([st EXCEPT !.playbacks[i].pc = "done"], MediaPlayerState(1), 64)

\* on_message, msg_type == 65: MediaPlayerCommandRequest
\* (has_media_url is field 6, media_url is field 7)
on_message_media_player_command(st, data) ==
    LET cmd == ParseFromString(data)
    IN  IF ~cmd.ok THEN st
        ELSE IF PbInt(cmd.fields, 6) # 0 /\ PbBytes(cmd.fields, 7) # <<>>
        THEN [st EXCEPT !.playbacks =
                 Append(@, [url |-> PbBytes(cmd.fields, 7), pc |-> "created",
                            data |-> <<>>, by |-> st.by])]
        ELSE st

\* websocket.send(json.dumps(msg)) to one browser; a closed connection raises
websocket_send(st, c, msg) ==
    IF st.ws[c] = "open"
    THEN [st EXCEPT !.wsout[c] = Append(@, [kind |-> "text", data |-> msg])]
    ELSE st

\* websocket_server.py, handle_control_message: msg is the parsed JSON
\* object, or [type |-> "malformed"] for a text json.loads rejects; every
\* exception is caught and logged
handle_control_message(st, c, msg) ==
    IF msg.type = "wake_detected" THEN initiate_pipeline(st, msg.wake_word)
    ELSE IF msg.type = "ping" THEN websocket_send(st, c, [type |-> "pong"])
    ELSE IF msg.type = "status_request"
    THEN websocket_send(st, c, [type |-> "status",
                                clients |-> Cardinality(st.clients),
                                ha_connected |-> st.connected])
    ELSE st

\* on_message: the `protocol` argument is not used; every reply goes through
\* _send.  An exception of a branch is caught and logged.
on_message(st, s, msg_type, data) ==
    IF msg_type = 9 THEN _handle_device_info(st)
    ELSE IF msg_type = 11 THEN _handle_list_entities(st)
    ELSE IF msg_type = 20 THEN _handle_subscribe_states(st)
    ELSE IF msg_type = 52 THEN st
    ELSE IF msg_type \in {89, 91} THEN st               \* parsed and logged
    ELSE IF msg_type = 92 THEN on_message_event(st, data)
    ELSE IF msg_type = 121 THEN _handle_voice_assistant_configuration_request(st)
    ELSE IF msg_type = 123 THEN
        LET req == ParseFromString(data)
        IN  IF ~req.ok THEN st
            ELSE _handle_voice_assistant_set_configuration(st, req.fields)
    ELSE IF msg_type = 65 THEN on_message_media_player_command(st, data)
    ELSE IF msg_type = 106 THEN on_message_audio(st, data)
    ELSE st                                             \* unhandled, logged

(* ---------------- api_server.py: dispatch of one packet ---------------- *)
\* _handle_packet: Hello, Connect, Disconnect and Ping are answered here; every
\* other type goes to on_message, whatever self._authenticated is.  An
\* exception (a payload that does not parse) is caught and logged.
_handle_packet(st0, s, msg_type, data) ==
    LET k  == Len(st0.handled[s]) + 1
        st == [st0 EXCEPT !.handled[s] = Append(@, [type |-> msg_type, data |-> data]),
                          !.by = [src |-> "session", id |-> s, idx |-> k]]
    IN  IF msg_type = 1 THEN
            IF ParseFromString(data).ok
            THEN _handle_hello(st, s, ParseFromString(data).fields) ELSE st
        ELSE IF msg_type = 3 THEN
            IF ParseFromString(data).ok
            THEN _handle_connect(st, s, ParseFromString(data).fields) ELSE st
        ELSE IF msg_type = 5 THEN _handle_disconnect(st, s)
        ELSE IF msg_type = 7 THEN _send_message(st, s, EmptyMessage, 8)
        ELSE on_message(st, s, msg_type, data)

RECURSIVE read_packets(_, _, _)
\* the loop of data_received: read_packet until it returns None
read_packets(st, s, buf) ==
    LET packet == read_packet(buf)
    IN  IF ~packet.found THEN [st |-> st, buffer |-> packet.buffer]
        ELSE read_packets(_handle_packet(st, s, packet.type, packet.data), s,
                          packet.buffer)

(* ------------------------------ the peers ------------------------------ *)
\* what the hub may send: <<type, payload>> of well-formed requests
HelloRequest == [type |-> 1, data |-> PbLenField(1, <<104>>)]
ConnectRequest == [type |-> 3, data |-> <<>>]
DisconnectRequest == [type |-> 5, data |-> <<>>]
PingRequest == [type |-> 7, data |-> <<>>]
DeviceInfoRequest == [type |-> 9, data |-> <<>>]
ListEntitiesRequest == [type |-> 11, data |-> <<>>]
SubscribeStatesRequest == [type |-> 20, data |-> <<>>]
\* MediaPlayerCommandRequest with has_media_url and media_url = "u"
MediaCommandUrl == [type |-> 65, data |-> PbIntField(6, 1) \o PbLenField(7, <<117>>)]
\* MediaPlayerCommandRequest with has_command and command = 1, no media URL
MediaCommandNoUrl == [type |-> 65, data |-> PbIntField(2, 1) \o PbIntField(3, 1)]
\* VoiceAssistantAudio whose data is the two bytes 0x00 0x05
AudioFrame == [type |-> 106, data |-> PbLenField(1, <<0, 5>>)]
\* VoiceAssistantSetConfiguration with active_wake_words = ["alexa"]
SetConfiguration == [type |-> 123, data |-> PbLenField(1, alexa)]
\* VoiceAssistantEventResponse: event_type 1, one item {name: "k", value: "v"}
EventFrame ==
    [type |-> 92,
     data |-> PbIntField(1, 1) \o
              PbLenField(2, PbLenField(1, <<107>>) \o PbLenField(2, <<118>>))]

\* VoiceAssistantConfigurationRequest
ConfigurationRequest == [type |-> 121, data |-> <<>>]
\* VoiceAssistantSetConfiguration with active_wake_words = ["hey"], an
\* identifier outside the table
SetConfigurationHey == [type |-> 123, data |-> PbLenField(1, <<104, 101, 121>>)]

\* what a browser may send as a control message: wake_detected with a
\* wake word of the table, with one outside it ("hey") and with none, ping,
\* status_request and a text that is not JSON
ControlMessages ==
    {[type |-> "wake_detected", wake_word |-> w] :
        w \in {okay_nabu_v01, alexa_v01, <<104, 101, 121>>, <<>>}}
    \cup {[type |-> "ping"], [type |-> "status_request"], [type |-> "malformed"]}

\* the token of a configuration that has one
Secret == "s3cret"

\* what authenticate may receive first: the right message, a wrong token, no
\* token, the right token under another type, JSON that is no object, a
\* text that is not JSON, and nothing at all
FirstMessages ==
    {[json |-> "object", type |-> "auth", token |-> Secret],
     [json |-> "object", type |-> "auth", token |-> "guess"],
     [json |-> "object", type |-> "auth", token |-> NoToken],
     [json |-> "object", type |-> "ping", token |-> Secret],
     [json |-> "array", type |-> "", token |-> NoToken],
     [json |-> "invalid", type |-> "", token |-> NoToken],
     [json |-> "timeout", type |-> "", token |-> NoToken]}

\* AuthenticationRequest whose payload is cut short: the tag of field 1
\* (varint) without its value; ParseFromString raises DecodeError
ConnectRequestCut == [type |-> 3, data |-> <<8>>]

\* VoiceAssistantSetConfiguration with active_wake_words = ["alexa_v0.1"]
SetConfigurationClient == [type |-> 123, data |-> PbLenField(1, alexa_v01)]

\* what a browser may send as a binary message
MicChunks == {<<1, 0>>}

(* ------------------------------- actions ------------------------------- *)
\* connection_made: a device connection is accepted; on_connect(self)
connection_made(s) ==
    /\ transport[s] = "none"
    /\ s = "B" => transport["A"] # "none"      \* the first connection is named A
    /\ Unpack(on_connect([Pack([src |-> "", id |-> "", idx |-> 0])
                            EXCEPT !.transport[s] = "open"], s))
    /\ UNCHANGED <<buffer, wire, nsent, nmic, npackets, hubvars, purevars>>

\* connection_lost: the peer is gone; the callback only logs
connection_lost(s) ==
    /\ transport[s] = "open"
    /\ transport' = [transport EXCEPT ![s] = "closed"]
    /\ wire' = [wire EXCEPT ![s] = <<>>]
    /\ UNCHANGED <<authenticated, buffer, written, protocol, connected,
                   websocket_server, current_wake_word, playbacks, clients, ws,
                   wsout, tasks, nsent, nmic, handled, npackets, scheduled,
                   bcastLog, hubvars, purevars>>

\* the hub puts one more frame on a connection (at most `limit` in a run)
HubSend(s, f, limit) ==
    /\ transport[s] = "open"
    /\ nsent < limit
    /\ nsent' = nsent + 1
    /\ wire' = [wire EXCEPT ![s] = @ \o encode_frame(f.data, f.type)]
    /\ UNCHANGED <<transport, authenticated, buffer, written, protocol, connected,
                   websocket_server, current_wake_word, playbacks, clients, ws,
                   wsout, tasks, nmic, handled, npackets, scheduled, bcastLog,
                   hubvars, purevars>>

\* data_received: the next n bytes arrive as one chunk: feed_data, then
\* read_packet and _handle_packet until no packet is left
data_received(s, n) ==
    /\ transport[s] = "open"
    /\ n \in 1..Len(wire[s])
    /\ LET data == SubSeq(wire[s], 1, n)
           r == read_packets(Pack([src |-> "", id |-> "", idx |-> 0]), s,
                             feed_data(buffer[s], data))
       IN  /\ Unpack(r.st)
           /\ buffer' = [buffer EXCEPT ![s] = r.buffer]
    /\ wire' = [wire EXCEPT ![s] = IF transport'[s] = "open"
                                   THEN SliceFrom(@, n)
                                   ELSE <<>>]      \* closed: nothing more arrives
    /\ npackets' = [npackets EXCEPT ![s] = Len(handled'[s]) - Len(handled[s])]
    /\ UNCHANGED <<nsent, nmic, hubvars, purevars>>

\* faulty variant: a first message of type auth is accepted whatever its token
authenticate_anytoken(st, c, first, up) ==
    IF auth_token = NoToken THEN [ok |-> TRUE, st |-> st]
    ELSE IF first.json # "object" THEN [ok |-> FALSE, st |-> st]
    ELSE IF ~up THEN [ok |-> FALSE, st |-> st]
    ELSE IF first.type = "auth"
    THEN [ok |-> TRUE,
          st |-> [st EXCEPT !.wsout[c] =
                    Append(@, [kind |-> "text", data |-> [type |-> "auth_ok"]])]]
    ELSE [ok |-> FALSE,
          st |-> [st EXCEPT !.wsout[c] =
                    Append(@, [kind |-> "text", data |-> [type |-> "auth_failed"]])]]

\* authenticate: `first` is what wait_for(websocket.recv(), 5.0) and
\* json.loads give: a JSON object with its type and token (NoToken: absent),
\* JSON that is no object (data.get raises), a text that is not JSON
\* (json.loads raises) or nothing within the timeout (wait_for raises); `up`
\* is whether the connection still takes the reply (else send raises).
\* Every exception gives False.
authenticate(st, c, first, up) ==
    IF auth_token = NoToken THEN [ok |-> TRUE, st |-> st]
    ELSE IF first.json # "object" THEN [ok |-> FALSE, st |-> st]
    ELSE IF ~up THEN [ok |-> FALSE, st |-> st]
    ELSE IF first.type = "auth" /\ first.token = auth_token
    THEN [ok |-> TRUE,
          st |-> [st EXCEPT !.wsout[c] =
                    Append(@, [kind |-> "text", data |-> [type |-> "auth_ok"]])]]
    ELSE [ok |-> FALSE,
          st |-> [st EXCEPT !.wsout[c] =
                    Append(@, [kind |-> "text", data |-> [type |-> "auth_failed"]])]]

\* register_client
register_client(st, c) ==
    [st EXCEPT !.clients = @ \cup {c}, !.ws[c] = "open"]

\* handler with a token configured: the connection is accepted and
\* authenticate waits for the first message
handler_accept(c) ==
    /\ ws[c] = "none"
    /\ server = "running"
    /\ auth_token # NoToken
    /\ ws' = [ws EXCEPT ![c] = "authenticating"]
    /\ UNCHANGED <<transport, authenticated, buffer, written, protocol, connected,
                   websocket_server, current_wake_word, playbacks, clients, wsout,
                   tasks, wire, nsent, nmic, handled, npackets, scheduled, bcastLog,
                   hubvars, purevars>>

\* handler with a token configured, from the end of the wait: authenticate
\* returns and the connection is registered, or closed with code 1008
handler_authenticate(c, first, up) ==
    /\ ws[c] = "authenticating"
    /\ first_message' = [first_message EXCEPT ![c] = first]
    /\ LET r == authenticate(Pack([src |-> "auth", id |-> c, idx |-> 0]),
                             c, first, up)
       IN  IF r.ok
           THEN /\ Unpack(register_client(r.st, c))
                /\ wsclose' = wsclose
           ELSE /\ Unpack([r.st EXCEPT !.ws[c] = "rejected"])
                /\ wsclose' = [wsclose EXCEPT ![c] = 1008]
    /\ UNCHANGED <<buffer, wire, nsent, nmic, npackets, auth_token, control,
                   server, purevars>>

\* handler, up to register_client (no auth token is configured)
handler_register(c) ==
    /\ ws[c] = "none"
    /\ server = "running"
    /\ auth_token = NoToken
    /\ ws' = [ws EXCEPT ![c] = "open"]
    /\ clients' = clients \cup {c}
    /\ UNCHANGED <<transport, authenticated, buffer, written, protocol, connected,
                   websocket_server, current_wake_word, playbacks, wsout, tasks,
                   wire, nsent, nmic, handled, npackets, scheduled, bcastLog,
                   hubvars, purevars>>

\* handler, a binary message in the receive loop: send_audio_chunk(message).
\* (self.audio_buffer.add(message) before it fills a buffer nothing reads.)
handler_binary(c, chunk) ==
    /\ ws[c] = "open"
    /\ c \in clients
    /\ nmic < MaxMic
    /\ nmic' = nmic + 1
    /\ Unpack(send_audio_chunk(
                Pack([src |-> "browser", id |-> c, idx |-> nmic + 1]), chunk))
    /\ UNCHANGED <<buffer, wire, nsent, npackets, hubvars, purevars>>

\* handler, a text message in the receive loop: handle_control_message
handler_text(c, msg) ==
    /\ ws[c] = "open"
    /\ c \in clients
    /\ Len(control) < MaxControl
    /\ control' = Append(control, [client |-> c, msg |-> msg])
    /\ Unpack(handle_control_message(
                Pack([src |-> "control", id |-> c, idx |-> Len(control) + 1]),
                c, msg))
    /\ UNCHANGED <<buffer, wire, nsent, nmic, npackets, auth_token, wsclose,
                   first_message, server,
                   purevars>>

\* the browser connection closes: from now on a send to it raises
ConnectionClosed(c) ==
    /\ ws[c] = "open"
    /\ ws' = [ws EXCEPT ![c] = "closed"]
    /\ UNCHANGED <<transport, authenticated, buffer, written, protocol, connected,
                   websocket_server, current_wake_word, playbacks, clients, wsout,
                   tasks, wire, nsent, nmic, handled, npackets, scheduled, bcastLog,
                   hubvars, purevars>>

\* faulty variant: the client stays in the registry
unregister_client_keep(st, c) == st

\* unregister_client: self.clients.discard(websocket)
unregister_client(st, c) == [st EXCEPT !.clients = @ \ {c}]

\* handler, the receive loop ends with ConnectionClosed (passed over) and the
\* finally clause runs: unregister_client
handler_finally(c) ==
    /\ ws[c] = "closed"
    /\ Unpack(unregister_client([Pack([src |-> "handler", id |-> c, idx |-> 0])
                                   EXCEPT !.ws[c] = "done"], c))
    /\ UNCHANGED <<buffer, wire, nsent, nmic, npackets, hubvars, purevars>>

\* handler, a binary message whose handling raises (audio_buffer.add or
\* send_audio_chunk): the exception is logged, the loop is left and the
\* finally clause runs: unregister_client
handler_raise(c, chunk) ==
    /\ ws[c] = "open"
    /\ c \in clients
    /\ Unpack(unregister_client([Pack([src |-> "handler", id |-> c, idx |-> 0])
                                   EXCEPT !.ws[c] = "done"], c))
    /\ UNCHANGED <<buffer, wire, nsent, nmic, npackets, hubvars, purevars>>

\* stop(), up to the end of its awaits: no connection is accepted any more
\* and the open connections are closed
stop_close ==
    /\ server = "running"
    /\ server' = "closing"
    /\ ws' = [c \in Clients |-> IF ws[c] = "open" THEN "closed" ELSE ws[c]]
    /\ UNCHANGED <<transport, authenticated, buffer, written, protocol, connected,
                   websocket_server, current_wake_word, playbacks, clients, wsout,
                   tasks, wire, nsent, nmic, handled, npackets, scheduled, bcastLog,
                   auth_token, wsclose, control, first_message, purevars>>

\* stop(), self.clients.clear() (the handlers of the closed connections may
\* have finished before it or may finish after it)
stop_clear ==
    /\ server = "closing"
    /\ server' = "stopped"
    /\ clients' = {}
    /\ UNCHANGED <<transport, authenticated, buffer, written, protocol, connected,
                   websocket_server, current_wake_word, playbacks, ws, wsout,
                   tasks, wire, nsent, nmic, handled, npackets, scheduled, bcastLog,
                   auth_token, wsclose, control, first_message, purevars>>

\* the loop runs the oldest scheduled coroutine: broadcast_audio(data)
RunBroadcast ==
    /\ tasks # <<>>
    /\ Head(tasks).kind = "broadcast_audio"
    /\ LET task == Head(tasks)
           st == [Pack([src |-> "task", id |-> task.by.id, idx |-> task.by.idx])
                    EXCEPT !.tasks = Tail(@)]
       IN  Unpack(broadcast_audio(st, task.data))
    /\ UNCHANGED <<buffer, wire, nsent, nmic, npackets, hubvars, purevars>>

\* the cause recorded for what the task of playback i does
PlayCause(i) == [src |-> "play", id |-> "", idx |-> i]

\* what a fetch may return: the HTTP status (0: the request raised) and the body
FetchStatus == {200, 404, 0}
MediaBytes == {<<9, 0>>}

\* _play_media_url runs up to the end of the fetch
PlayFetch(i, status, data) ==
    /\ i \in 1..Len(playbacks)
    /\ playbacks[i].pc = "created"
    /\ Unpack(_play_media_url_fetch(Pack(PlayCause(i)), i, status, data))
    /\ UNCHANGED <<buffer, wire, nsent, nmic, npackets, hubvars, purevars>>

\* _play_media_url goes on: the fetched bytes are broadcast
PlayBroadcast(i) ==
    /\ i \in 1..Len(playbacks)
    /\ playbacks[i].pc = "fetched"
    /\ Unpack(_play_media_url_broadcast(Pack(PlayCause(i)), i))
    /\ UNCHANGED <<buffer, wire, nsent, nmic, npackets, hubvars, purevars>>

\* _play_media_url goes on once broadcast_audio has returned
PlayPlaying(i) ==
    /\ i \in 1..Len(playbacks)
    /\ playbacks[i].pc = "broadcast"
    /\ Unpack(_play_media_url_playing(Pack(PlayCause(i)), i))
    /\ UNCHANGED <<buffer, wire, nsent, nmic, npackets, hubvars, purevars>>

\* _play_media_url goes on once the sleep is over
PlayIdle(i) ==
    /\ i \in 1..Len(playbacks)
    /\ playbacks[i].pc = "playing"
    /\ Unpack(_play_media_url_idle(Pack(PlayCause(i)), i))
    /\ UNCHANGED <<buffer, wire, nsent, nmic, npackets, hubvars, purevars>>

(* ---------------------------- specification ---------------------------- *)

MapIdle == mw0 = <<>> /\ mw = <<>> /\ mops = <<>>

CodecIdle ==
    /\ cframes = <<>> /\ cstream = <<>> /\ cbuf = <<>> /\ cout = <<>>
    /\ cfeeds = 0 /\ creads = 0 /\ cidle = FALSE /\ cgarbage = <<>>

SysInit ==
    /\ transport = [s \in Sessions |-> "none"]
    /\ authenticated = [s \in Sessions |-> FALSE]
    /\ buffer = [s \in Sessions |-> <<>>]
    /\ written = [s \in Sessions |-> <<>>]
    /\ protocol = NoSession
    /\ connected = FALSE
    /\ current_wake_word = [set |-> FALSE, value |-> <<>>]
    /\ playbacks = <<>>
    /\ clients = {}
    /\ ws = [c \in Clients |-> "none"]
    /\ wsout = [c \in Clients |-> <<>>]
    /\ tasks = <<>>
    /\ wire = [s \in Sessions |-> <<>>]
    /\ nsent = 0
    /\ nmic = 0
    /\ handled = [s \in Sessions |-> <<>>]
    /\ npackets = [s \in Sessions |-> 0]
    /\ scheduled = <<>>
    /\ bcastLog = <<>>
    /\ wsclose = [c \in Clients |-> 0]
    /\ control = <<>>
    /\ first_message = [c \in Clients |-> NoMessage]
    /\ server = "running"

\* main(): the WebSocketServer is constructed around the handler
\* (set_websocket_server) before the loop serves any connection
Init ==
    /\ SysInit
    /\ websocket_server = TRUE
    /\ auth_token = NoToken
    /\ CodecIdle
    /\ MapIdle

\* what the hub sends in Spec: the session-level requests and one
\* application-level request
SessionFrames ==
    {HelloRequest, ConnectRequest, DisconnectRequest, PingRequest, DeviceInfoRequest}

\* what the hub sends in SpecApp: configuration and pipeline-event requests
AppFrames == {ConnectRequest, SetConfiguration, EventFrame}

\* what the hub sends in SpecHub: text-to-speech audio, and Connect
HubFrames == {ConnectRequest, AudioFrame}

\* the device side: connections, requests in arbitrary chunks
Next ==
    \/ \E s \in Sessions : connection_made(s)
    \/ \E s \in Sessions, f \in SessionFrames : HubSend(s, f, MaxHubFrames)
    \/ \E s \in Sessions : \E n \in 1..Len(wire[s]) : data_received(s, n)
    \/ \E s \in Sessions : connection_lost(s)

Spec == Init /\ [][Next]_vars

\* the hub's configuration and event requests, with browsers registered
NextApp ==
    \/ \E s \in Sessions : connection_made(s)
    \/ \E s \in Sessions, f \in AppFrames : HubSend(s, f, MaxAppFrames)
    \/ \E s \in Sessions : \E n \in 1..Len(wire[s]) : data_received(s, n)
    \/ \E c \in Clients : handler_register(c)

SpecApp == Init /\ [][NextApp]_vars

\* what the hub sends in SpecMic: Connect, so that a session may authenticate
MicFrames == {ConnectRequest, PingRequest}

\* microphone audio, browser to hub: the device connections, the browser
\* connections and their binary messages
NextMic ==
    \/ \E s \in Sessions : connection_made(s)
    \/ \E s \in Sessions, f \in MicFrames : HubSend(s, f, MaxAppFrames)
    \/ \E s \in Sessions : \E n \in 1..Len(wire[s]) : data_received(s, n)
    \/ \E c \in Clients : handler_register(c)
    \/ \E c \in Clients, chunk \in MicChunks : handler_binary(c, chunk)
    \/ \E c \in Clients : ConnectionClosed(c)
    \/ \E c \in Clients : handler_finally(c)

SpecMic == Init /\ [][NextMic]_vars

\* the device connections of SpecHub: the hub keeps one connection
HubSessions == {"A"}

\* text-to-speech audio, hub to browser: the hub's audio frames, the browser
\* connections and the coroutines scheduled on the loop
NextHub ==
    \/ \E s \in HubSessions : connection_made(s)
    \/ \E s \in HubSessions, f \in HubFrames : HubSend(s, f, MaxAppFrames)
    \/ \E s \in HubSessions : \E n \in 1..Len(wire[s]) : data_received(s, n)
    \/ \E c \in Clients : handler_register(c)
    \/ \E c \in Clients : ConnectionClosed(c)
    \/ \E c \in Clients : handler_finally(c)
    \/ RunBroadcast

SpecHub == Init /\ [][NextHub]_vars

\* the event loop runs every coroutine that was scheduled on it
SpecHubFair == SpecHub /\ WF_vars(RunBroadcast)

\* what the hub sends in SpecEntities: discovery and state subscription
EntityFrames == {ListEntitiesRequest, SubscribeStatesRequest, DisconnectRequest}

\* entity discovery and initial states
NextEntities ==
    \/ \E s \in Sessions : connection_made(s)
    \/ \E s \in Sessions, f \in EntityFrames : HubSend(s, f, MaxAppFrames)
    \/ \E s \in Sessions : \E n \in 1..Len(wire[s]) : data_received(s, n)
    \/ \E s \in Sessions : connection_lost(s)

SpecEntities == Init /\ [][NextEntities]_vars

\* what the hub sends in SpecMedia: media commands and state subscription
MediaFrames == {MediaCommandUrl, MediaCommandNoUrl, SubscribeStatesRequest}

\* the playbacks of a run
Playbacks == 1..MaxAppFrames

\* media playback: the hub's commands, the playback tasks and the browsers
NextMedia ==
    \/ connection_made("A")
    \/ \E f \in MediaFrames : HubSend("A", f, MaxAppFrames)
    \/ \E n \in 1..Len(wire["A"]) : data_received("A", n)
    \/ \E c \in Clients : handler_register(c)
    \/ \E i \in Playbacks, status \in FetchStatus, data \in MediaBytes :
          PlayFetch(i, status, data)
    \/ \E i \in Playbacks : PlayBroadcast(i)
    \/ \E i \in Playbacks : PlayPlaying(i)
    \/ \E i \in Playbacks : PlayIdle(i)

SpecMedia == Init /\ [][NextMedia]_vars

\* the server is started with or without a token
InitAuth ==
    /\ SysInit
    /\ websocket_server = TRUE
    /\ auth_token \in {NoToken, Secret}
    /\ CodecIdle
    /\ MapIdle

\* browser connections from their acceptance to their end
NextAuth ==
    \/ \E c \in Clients : handler_accept(c)
    \/ \E c \in Clients, first \in FirstMessages, up \in BOOLEAN :
          handler_authenticate(c, first, up)
    \/ \E c \in Clients : handler_register(c)
    \/ \E c \in Clients, msg \in ControlMessages : handler_text(c, msg)
    \/ \E c \in Clients : ConnectionClosed(c)
    \/ \E c \in Clients : handler_finally(c)

SpecAuth == InitAuth /\ [][NextAuth]_vars

\* the browser connections from registration to the end of their handlers,
\* and the server's stop
NextRegistry ==
    \/ \E c \in Clients : handler_register(c)
    \/ \E c \in Clients, chunk \in MicChunks : handler_binary(c, chunk)
    \/ \E c \in Clients, msg \in ControlMessages : handler_text(c, msg)
    \/ \E c \in Clients, chunk \in MicChunks : handler_raise(c, chunk)
    \/ \E c \in Clients : ConnectionClosed(c)
    \/ \E c \in Clients : handler_finally(c)
    \/ stop_close
    \/ stop_clear

SpecRegistry == Init /\ [][NextRegistry]_vars

\* what the hub sends in SpecDisconnect: the handshake and its leave
DisconnectFrames == {HelloRequest, ConnectRequest, DisconnectRequest}

\* device sessions that take their leave before Hello, after Hello or Ready
NextDisconnect ==
    \/ \E s \in Sessions : connection_made(s)
    \/ \E s \in Sessions, f \in DisconnectFrames : HubSend(s, f, MaxHubFrames)
    \/ \E s \in Sessions : \E n \in 1..Len(wire[s]) : data_received(s, n)

SpecDisconnect == Init /\ [][NextDisconnect]_vars

\* what the hub sends in SpecContain: requests whose handling raises (a cut
\* payload, a set-configuration) among requests whose handling does not
ContainFrames ==
    {ConnectRequestCut, ConnectRequest, SetConfiguration, ConfigurationRequest}

\* one device session whose requests raise now and then
NextContain ==
    \/ connection_made("A")
    \/ \E f \in ContainFrames : HubSend("A", f, MaxHubFrames)
    \/ \E n \in 1..Len(wire["A"]) : data_received("A", n)

SpecContain == Init /\ [][NextContain]_vars

\* two device connections, accepted one after the other and lost at any
\* time, and the browsers' audio and control messages
NextLastConnect ==
    \/ \E s \in Sessions : connection_made(s)
    \/ \E s \in Sessions : connection_lost(s)
    \/ \E c \in Clients : handler_register(c)
    \/ \E c \in Clients, chunk \in MicChunks : handler_binary(c, chunk)
    \/ \E c \in Clients, msg \in ControlMessages : handler_text(c, msg)

SpecLastConnect == Init /\ [][NextLastConnect]_vars

\* what the hub sends in SpecPlay: media-player commands
PlayFrames == {MediaCommandUrl, MediaCommandNoUrl}

\* the playbacks of a run of SpecPlay
PlayIds == 1..MaxPlay

\* one playback from the command to its end, on a device connection that may
\* be lost at any time
NextPlay ==
    \/ connection_made("A")
    \/ \E f \in PlayFrames : HubSend("A", f, MaxPlay)
    \/ \E n \in 1..Len(wire["A"]) : data_received("A", n)
    \/ connection_lost("A")
    \/ \E c \in Clients : handler_register(c)
    \/ \E i \in PlayIds, status \in FetchStatus, data \in MediaBytes :
          PlayFetch(i, status, data)
    \/ \E i \in PlayIds : PlayBroadcast(i)
    \/ \E i \in PlayIds : PlayPlaying(i)
    \/ \E i \in PlayIds : PlayIdle(i)

SpecPlay == Init /\ [][NextPlay]_vars

\* the loop runs every task to its end, and a sleep ends
SpecPlayFair ==
    /\ SpecPlay
    /\ \A i \in PlayIds :
          /\ WF_vars(\E status \in FetchStatus, data \in MediaBytes :
                        PlayFetch(i, status, data))
          /\ WF_vars(PlayBroadcast(i))
          /\ WF_vars(PlayPlaying(i))
          /\ WF_vars(PlayIdle(i))

\* what the hub sends in SpecPipeline: it takes its leave
PipelineFrames == {DisconnectRequest}

\* the browsers' control messages, with device connections coming and going
NextPipeline ==
    \/ \E s \in Sessions : connection_made(s)
    \/ \E s \in Sessions, f \in PipelineFrames : HubSend(s, f, MaxControl)
    \/ \E s \in Sessions : \E n \in 1..Len(wire[s]) : data_received(s, n)
    \/ \E c \in Clients : handler_register(c)
    \/ \E c \in Clients, msg \in ControlMessages : handler_text(c, msg)

SpecPipeline == Init /\ [][NextPipeline]_vars

\* what the hub sends in SpecConfig: configuration requests and selections
ConfigFrames ==
    {ConfigurationRequest, SetConfiguration, SetConfigurationHey,
     SetConfigurationClient, DisconnectRequest}

\* the wake-word configuration, asked for and set on one device connection
NextConfig ==
    \/ connection_made("A")
    \/ \E f \in ConfigFrames : HubSend("A", f, MaxHubFrames)
    \/ \E n \in 1..Len(wire["A"]) : data_received("A", n)

SpecConfig == Init /\ [][NextConfig]_vars

(* ----------------------- the wake-word maps alone ---------------------- *)
\* the bytes "a", "_", "1" the enumerated identifiers are made of
IdBytes == {97, 95, 49}
\* the table's identifiers, near misses of them, and every short identifier
MapInputs ==
    {alexa, okay_nabu, alexa_v01, okay_nabu_v01,
     alexa_v01 \o v01, okay_nabu \o <<95>>, SubSeq(alexa, 1, 4),
     SubSeq(okay_nabu_v01, 1, 13), <<65>> \o SubSeq(alexa, 2, 5)}
    \cup UNION {[1..n -> IdBytes] : n \in 0..MaxIdLen}

InitMap ==
    /\ SysInit
    /\ websocket_server = TRUE
    /\ auth_token = NoToken
    /\ CodecIdle
    /\ mw0 \in MapInputs
    /\ mw = mw0
    /\ mops = <<>>

\* self._map_ww_to_client(mw)
MapToClient ==
    /\ Len(mops) < MaxMapOps
    /\ mw' = _map_ww_to_client(mw)
    /\ mops' = Append(mops, "client")
    /\ UNCHANGED <<mw0, codecvars, sysvars>>

\* self._map_ww_to_ha(mw)
MapToHa ==
    /\ Len(mops) < MaxMapOps
    /\ mw' = _map_ww_to_ha(mw)
    /\ mops' = Append(mops, "ha")
    /\ UNCHANGED <<mw0, codecvars, sysvars>>

NextMap ==
    \/ MapToClient
    \/ MapToHa

SpecMap == InitMap /\ [][NextMap]_vars

(* --------------------------- the codec alone --------------------------- *)
\* message types with one-, two- and three-byte varints
CodecTypes == {0, 1, 127, 128, 300, 16384}
\* byte values the short payloads are made of
ByteSamples == {0, 1, 128, 255}
ShortPayloads == UNION {[1..n -> ByteSamples] : n \in 0..MaxPayloadLen}
\* a payload whose length needs a two-byte varint, with 0x00 bytes in it
LongPayload == [i \in 1..130 |-> IF i % 10 = 0 THEN 0 ELSE (i * 37) % 256]
CodecPayloads == ShortPayloads \cup {LongPayload}

\* one frame is chosen and encoded; its bytes are what will be fed
InitCodec ==
    /\ SysInit
    /\ websocket_server = TRUE
    /\ auth_token = NoToken
    /\ MapIdle
    /\ \E t \in CodecTypes, p \in CodecPayloads :
          /\ cframes = <<[type |-> t, data |-> p]>>
          /\ cstream = encode_frame(p, t)
    /\ cbuf = <<>>
    /\ cout = <<>>
    /\ cfeeds = 0
    /\ creads = 0
    /\ cidle = FALSE
    /\ cgarbage = <<>>

\* feed_data with the next n bytes of the stream
\* (cfeeds counts the feeds and creads the reads since the last feed, up to 2)
CodecFeed(n) ==
    /\ n \in 1..Len(cstream)
    /\ cbuf' = feed_data(cbuf, SubSeq(cstream, 1, n))
    /\ cstream' = SliceFrom(cstream, n)
    /\ cfeeds' = IF cfeeds < 2 THEN cfeeds + 1 ELSE cfeeds
    /\ creads' = 0
    /\ cidle' = FALSE
    /\ UNCHANGED <<cframes, cout, cgarbage, mapvars, sysvars>>

\* one call of read_packet (not repeated once it has returned None)
CodecRead ==
    /\ ~cidle
    /\ LET packet == read_packet(cbuf)
       IN  /\ cbuf' = packet.buffer
           /\ cout' = IF packet.found
                      THEN Append(cout, [type |-> packet.type, data |-> packet.data])
                      ELSE cout
           /\ cidle' = ~packet.found
    /\ creads' = IF creads < 2 THEN creads + 1 ELSE creads
    /\ UNCHANGED <<cframes, cstream, cfeeds, cgarbage, mapvars, sysvars>>

NextCodec ==
    \/ \E n \in 1..Len(cstream) : CodecFeed(n)
    \/ CodecRead

SpecCodec == InitCodec /\ [][NextCodec]_vars

(* ------------------------ the codec on a stream ------------------------- *)
\* the frames a stream is made of: one without payload, one with a two-byte
\* type and a payload that holds a 0x00 byte
StreamFrames == {[type |-> 7, data |-> <<>>], [type |-> 200, data |-> <<0, 5>>]}

RECURSIVE EncodeAll(_)
\* the frames encoded one after the other
EncodeAll(frames) ==
    IF frames = <<>> THEN <<>>
    ELSE encode_frame(Head(frames).data, Head(frames).type) \o EncodeAll(Tail(frames))

\* a stream of well-formed frames is chosen; what arrives is the stream or a
\* part of it that ends inside a frame
InitStream ==
    /\ SysInit
    /\ websocket_server = TRUE
    /\ auth_token = NoToken
    /\ MapIdle
    /\ \E k \in 1..MaxStream : \E fs \in [1..k -> StreamFrames] :
          \E n \in 1..Len(EncodeAll(fs)) :
             /\ cframes = fs
             /\ cstream = SubSeq(EncodeAll(fs), 1, n)
    /\ cbuf = <<>>
    /\ cout = <<>>
    /\ cfeeds = 0
    /\ creads = 0
    /\ cidle = FALSE
    /\ cgarbage = <<>>

SpecStream == InitStream /\ [][NextCodec]_vars

(* ------------------------ the codec after garbage ----------------------- *)
\* byte values the garbage is made of
GarbageBytes == {0, 1, 255}
\* runs of garbage: any bytes, the first of them not 0x00
Garbage ==
    {g \in UNION {[1..n -> GarbageBytes] : n \in 0..MaxGarbage} :
        g # <<>> => g[1] # 0}
\* the frames put behind the garbage; none: the stream is the garbage alone
ResyncFrames ==
    {<<>>} \cup {<<[type |-> t, data |-> p]>> :
                    t \in {0, 9, 300}, p \in {<<>>, <<0>>, <<7, 0>>}}

\* the garbage and then the encoded frame are what will be fed
InitResync ==
    /\ SysInit
    /\ websocket_server = TRUE
    /\ auth_token = NoToken
    /\ MapIdle
    /\ \E g \in Garbage, fs \in ResyncFrames :
          /\ cgarbage = g
          /\ cframes = fs
          /\ cstream = g \o (IF fs = <<>> THEN <<>>
                              ELSE encode_frame(fs[1].data, fs[1].type))
    /\ cbuf = <<>>
    /\ cout = <<>>
    /\ cfeeds = 0
    /\ creads = 0
    /\ cidle = FALSE

SpecResync == InitResync /\ [][NextCodec]_vars

(* ------------------------------- claims -------------------------------- *)
\* C9: frame round trip.  When the encoding of a frame (t, p) was fed into the
\* empty buffer in one piece and read_packet was called once, the packet
\* returned is exactly (t, p) and the buffer is empty again.
C9_RoundTrip ==
    (cfeeds = 1 /\ cstream = <<>> /\ creads = 1)
        => (cout = cframes /\ cbuf = <<>>)

\* C9 witness: a round trip of a frame with a multi-byte type and a payload
\* that holds a 0x00 byte.
C9_Witness ==
    /\ cfeeds = 1 /\ cstream = <<>> /\ creads = 1
    /\ cout = cframes /\ cbuf = <<>>
    /\ cframes[1].type > 127
    /\ \E i \in 1..Len(cframes[1].data) : cframes[1].data[i] = 0

\* C10: partial delivery.  However the encoded frame is cut into chunks, no
\* packet comes out before the last chunk was fed, and once the last chunk was
\* fed and read_packet has run until it returned None, exactly the one frame
\* (the same type and payload) has come out and nothing is left in the buffer.
C10_PartialDelivery ==
    /\ cout # <<>> => (cstream = <<>> /\ cout = cframes)
    /\ (cfeeds >= 1 /\ cstream = <<>> /\ cidle) => (cout = cframes /\ cbuf = <<>>)

\* C10 witness: a frame with a payload that arrived in two or more chunks and
\* came out whole.
C10_Witness ==
    /\ cfeeds = 2 /\ cstream = <<>> /\ cidle
    /\ cout = cframes
    /\ cframes[1].data # <<>>

\* the frames on transport t that were written while a request of session s
\* was being handled, as <<type, message>> records
CausedOn(t, s) ==
    LET caused == SelectSeq(written[t],
                     LAMBDA e : e.by.src = "session" /\ e.by.id = s)
    IN  [i \in 1..Len(caused) |-> [type |-> caused[i].type, msg |-> caused[i].msg]]

\* C1: handshake.  When the packets handled on a session are exactly Hello,
\* Connect, Ping, in this order, the frames written for them are exactly
\* HelloResponse (type 2, version 2.10), AuthenticationResponse (type 4,
\* invalid_password false) and PingResponse (type 8), in this order, all on
\* that session's transport, and the session is authenticated; in however
\* many chunks the requests arrived.
C1_Handshake ==
    \A s \in Sessions :
        handled[s] = <<HelloRequest, ConnectRequest, PingRequest>>
        => /\ CausedOn(s, s) =
                <<[type |-> 2, msg |-> [api_version_major |-> 2,
                                        api_version_minor |-> 10,
                                        server_info |-> "HybridSatellite",
                                        name |-> "hybrid-satellite"]],
                  [type |-> 4, msg |-> [invalid_password |-> FALSE]],
                  [type |-> 8, msg |-> EmptyMessage]>>
           /\ \A t \in Sessions \ {s} : CausedOn(t, s) = <<>>
           /\ authenticated[s]

\* C1 witness: the three requests arrived in one chunk and were answered.
C1_Witness ==
    \E s \in Sessions :
        /\ handled[s] = <<HelloRequest, ConnectRequest, PingRequest>>
        /\ npackets[s] = 3
        /\ Len(written[s]) = 3
        /\ authenticated[s]

\* the replies of _handle_packet itself: Hello, Authentication, Disconnect
\* and Ping responses
SessionReplyTypes == {2, 4, 6, 8}

\* C2: a request other than Hello, Connect, Disconnect and Ping is forwarded
\* to the application-level dispatcher only on an authenticated session: as
\* long as a session is not authenticated, no frame other than the replies
\* to those four has been written for one of its requests.
C2_ForwardedOnlyWhenReady ==
    \A s \in Sessions : \A t \in Sessions :
        ~authenticated[s]
        => \A i \in 1..Len(CausedOn(t, s)) :
              CausedOn(t, s)[i].type \in SessionReplyTypes

\* C3: every response frame is written to the transport of the session that
\* received the request that caused it.
C3_RepliesToRequester ==
    \A s \in Sessions : \A t \in Sessions \ {s} : CausedOn(t, s) = <<>>

\* C4: a step in which a browser's binary message is given to
\* send_audio_chunk writes something only if there is a current session and
\* that session is authenticated, and then it writes one audio frame (type
\* 106) to that session; in every other state it writes nothing, and it never
\* leaves work behind for later.
C4_AudioOnlyWhenAuthenticated ==
    [][nmic' # nmic
        => /\ tasks' = tasks
           /\ IF protocol # NoSession /\ authenticated[protocol]
              THEN \E e \in [type : {106}, msg : [data : MicChunks],
                             by : [src : {"browser"}, id : Clients, idx : {nmic'}]] :
                      written' = [written EXCEPT ![protocol] = Append(@, e)]
              ELSE written' = written]_vars

\* the packets handled so far, as <<session, index>> pairs
Handled == {<<s, k>> \in Sessions \X (1..(MaxHubFrames + MaxAppFrames)) :
               k <= Len(handled[s])}

\* the cause recorded for what the handling of packet k of session s did
Cause(s, k) == [src |-> "session", id |-> s, idx |-> k]

\* the coroutines of `kind` scheduled by the handling of packet k of session s
ScheduledBy(s, k, kind) ==
    {j \in 1..Len(scheduled) :
        scheduled[j].kind = kind /\ scheduled[j].by = Cause(s, k)}

\* the frames of type `type` written by the handling of packet k of session s
WrittenBy(s, k, type) ==
    {<<t, i>> \in Sessions \X (1..(5 * (MaxHubFrames + MaxAppFrames))) :
        /\ i <= Len(written[t])
        /\ written[t][i].type = type
        /\ written[t][i].by = Cause(s, k)}

\* the hub identifier a set-configuration payload chooses, <<>> when none
ChosenWakeWord(data) ==
    LET req == ParseFromString(data)
    IN  IF req.ok /\ PbRepeated(req.fields, 1) # <<>>
        THEN PbRepeated(req.fields, 1)[1] ELSE <<>>

\* C5: with the client hub attached, a handled set-configuration request that
\* chooses hub identifier h has made mapToClient(h) the current selection,
\* has scheduled exactly one config_update broadcast carrying that value and
\* has written exactly one configuration response (type 122).
C5_SetConfiguration ==
    \A p \in Handled :
        LET s == p[1]
            k == p[2]
            h == ChosenWakeWord(handled[s][k].data)
        IN  (websocket_server /\ handled[s][k].type = 123 /\ h # <<>>)
            => /\ (\A k2 \in (k + 1)..Len(handled[s]) : handled[s][k2].type # 123)
                    => current_wake_word = [set |-> TRUE, value |-> _map_ww_to_client(h)]
               /\ Cardinality(ScheduledBy(s, k, "broadcast_message")) = 1
               /\ \A j \in ScheduledBy(s, k, "broadcast_message") :
                     scheduled[j].data = ConfigUpdate(_map_ww_to_client(h))
               /\ Cardinality(WrittenBy(s, k, 122)) = 1

\* C6: with the client hub attached, every handled pipeline event (type 92)
\* has scheduled one voice_event message, built from the event's type and its
\* name/value items, for the browser clients.
C6_VoiceEvent ==
    \A p \in Handled :
        LET s == p[1]
            k == p[2]
            event == ParseFromString(handled[s][k].data)
        IN  (websocket_server /\ handled[s][k].type = 92 /\ event.ok)
            => /\ Cardinality(ScheduledBy(s, k, "broadcast_message")) = 1
               /\ \A j \in ScheduledBy(s, k, "broadcast_message") :
                     scheduled[j].data = VoiceEvent(event.fields)

\* audio.data of a VoiceAssistantAudio payload
AudioData(data) == PbBytes(ParseFromString(data).fields, 1)

\* the binary message a browser is sent
Binary(data) == [kind |-> "binary", data |-> data]

\* C7: every audio frame (type 106) handled has scheduled exactly one
\* broadcast of its audio bytes; a broadcast that has run was scheduled by an
\* audio frame handled before and carried that frame's audio bytes; when a
\* broadcast runs it addresses every client registered at that moment and
\* each of them with an open connection is sent the bytes as one binary
\* message; the step that handles frames sends nothing to a browser; and
\* every broadcast that was scheduled is run in the end.
C7_AudioBroadcast ==
    /\ [](/\ \A p \in Handled :
               LET s == p[1]
                   k == p[2]
               IN  (websocket_server /\ handled[s][k].type = 106
                       /\ ParseFromString(handled[s][k].data).ok)
                   => /\ Cardinality(ScheduledBy(s, k, "broadcast_audio")) = 1
                      /\ \A j \in ScheduledBy(s, k, "broadcast_audio") :
                            scheduled[j].data = AudioData(handled[s][k].data)
          /\ \A i \in 1..Len(bcastLog) :
               LET e == bcastLog[i]
               IN  /\ e.by.src = "task"
                   /\ e.by.idx <= Len(handled[e.by.id])
                   /\ handled[e.by.id][e.by.idx].type = 106
                   /\ e.data = AudioData(handled[e.by.id][e.by.idx].data))
    /\ [][/\ Len(tasks') < Len(tasks)
             => /\ clients # {}
                   => /\ Len(bcastLog') = Len(bcastLog) + 1
                      /\ bcastLog'[Len(bcastLog')].targets = clients
                /\ \A c \in Clients :
                      wsout'[c] = IF c \in clients /\ ws[c] = "open"
                                  THEN Append(wsout[c], Binary(Head(tasks).data))
                                  ELSE wsout[c]
          /\ handled' # handled => (wsout' = wsout /\ bcastLog' = bcastLog)]_vars
    /\ (tasks # <<>>) ~> (tasks = <<>>)

\* C7 witness: an audio frame was handled and its broadcast has run and
\* reached both registered browsers.
C7_Witness ==
    /\ \E s \in Sessions : Len(handled[s]) >= 1 /\ handled[s][1] = AudioFrame
    /\ Len(bcastLog) = 1
    /\ bcastLog[1].targets = Clients
    /\ \A c \in Clients : wsout[c] = <<Binary(<<0, 5>>)>>

\* C8: a broadcast_audio over a non-empty registry never raises, and every
\* registered client whose send does not fail is sent the bytes, whichever
\* other clients' sends fail.
C8_BroadcastIsolation ==
    [][(Len(tasks') < Len(tasks) /\ clients # {})
        => /\ Len(bcastLog') = Len(bcastLog) + 1
           /\ ~bcastLog'[Len(bcastLog')].raised
           /\ \A c \in clients :
                 ws[c] = "open"
                 => wsout'[c] = Append(wsout[c], Binary(Head(tasks).data))]_vars

\* C8 witness: a broadcast in which the send to one registered client failed
\* and the other registered client was sent the bytes.
C8_Witness ==
    \E i \in 1..Len(bcastLog) :
        /\ bcastLog[i].targets = Clients
        /\ \E c \in Clients :
              /\ bcastLog[i].sent = {c}
              /\ wsout[c] # <<>>
        /\ ~bcastLog[i].raised

\* the garbage holds no 0x00 byte
NoZero(g) == \A i \in 1..Len(g) : g[i] # 0

\* C11 as stated: whatever the garbage bytes are (the first not 0x00), no
\* packet other than the frame behind the garbage ever comes out, and once
\* everything was fed and read_packet has returned None, exactly that frame
\* has come out and the buffer is empty; a stream without any 0x00 byte gives
\* no packet and an empty buffer.
C11_Resync ==
    (cframes # <<>> \/ NoZero(cgarbage))
    => /\ cout # <<>> => cout = cframes
       /\ (cfeeds >= 1 /\ cstream = <<>> /\ cidle)
             => (cout = cframes /\ cbuf = <<>>)

\* C11 amended: the same for garbage that holds no 0x00 byte.
C11_ResyncNoZero ==
    NoZero(cgarbage)
    => /\ cout # <<>> => cout = cframes
       /\ (cfeeds >= 1 /\ cstream = <<>> /\ cidle)
             => (cout = cframes /\ cbuf = <<>>)

\* C11 witness: two garbage bytes without 0x00 were dropped and the frame
\* behind them, with a payload, came out whole.
C11_Witness ==
    /\ Len(cgarbage) = 2 /\ NoZero(cgarbage)
    /\ cframes # <<>> /\ cout = cframes /\ cframes[1].data # <<>>
    /\ cstream = <<>> /\ cidle /\ cbuf = <<>>

\* the frames the handling of packet k of session s wrote on transport t
EmittedOn(t, s, k) == SelectSeq(written[t], LAMBDA e : e.by = Cause(s, k))

\* no device transport was ever closed
NoneClosed == \A t \in Sessions : transport[t] # "closed"

\* C12: every ListEntities request handled has emitted nothing but the
\* discovery messages MediaPlayer (type 63, key 1), Select (52, key 2),
\* Switch (17, key 4), BinarySensor (12, key 5) and then ListEntitiesDone
\* (19), each once and in this order, on one transport; and it has emitted
\* them whenever no transport was closed.
C12_ListEntities ==
    \A p \in Handled :
        LET s == p[1]
            k == p[2]
            Ok(t) ==
                LET e == EmittedOn(t, s, k)
                IN  /\ Len(e) = 5
                    /\ [i \in 1..5 |-> e[i].type] = <<63, 52, 17, 12, 19>>
                    /\ [i \in 1..4 |-> e[i].msg.key] = <<1, 2, 4, 5>>
        IN  handled[s][k].type = 11
            => /\ \A t \in Sessions : EmittedOn(t, s, k) = <<>> \/ Ok(t)
               /\ Cardinality({t \in Sessions : EmittedOn(t, s, k) # <<>>}) <= 1
               /\ NoneClosed => \E t \in Sessions : Ok(t)

\* C12 witness: two ListEntities requests were handled on a session and each
\* was answered with the five messages.
C12_Witness ==
    \E s \in Sessions :
        /\ Len(handled[s]) = 2
        /\ handled[s][1].type = 11 /\ handled[s][2].type = 11
        /\ Len(EmittedOn(s, s, 1)) = 5 /\ Len(EmittedOn(s, s, 2)) = 5

\* C13: every SubscribeStates request handled has emitted one state message
\* per announced entity, of the type of its kind: MediaPlayer (64, key 1),
\* Select (53, key 2), Switch (26, key 4), BinarySensor (21, key 5); no
\* state message carries a key that discovery did not announce.
C13_SubscribeStates ==
    \A p \in Handled :
        LET s == p[1]
            k == p[2]
        IN  handled[s][k].type = 20
            => \A t \in Sessions :
                  LET e == EmittedOn(t, s, k)
                  IN  \/ e = <<>>
                      \/ /\ [i \in 1..Len(e) |-> e[i].type] = <<64, 53, 26, 21>>
                         /\ [i \in 1..Len(e) |-> e[i].msg.key] = <<1, 2, 4, 5>>

\* the frames of type 64 that the task of playback i has written, in order
\* (the transports taken in the order A, B)
PublishedBy(i) ==
    SelectSeq(written["A"] \o written["B"],
              LAMBDA e : e.by = PlayCause(i) /\ e.type = 64)

\* C14: a SubscribeStates request handled while a playback has published
\* Playing and not yet Idle emits a media-player state message (type 64)
\* that carries Playing (state 2).
C14_SubscribeStatesLatest ==
    [][\A s \in Sessions :
         \A k \in (Len(handled[s]) + 1)..Len(handled'[s]) :
            (/\ handled'[s][k].type = 20
             /\ \E i \in 1..Len(playbacks) :
                   /\ playbacks[i].pc = "playing"
                   /\ PublishedBy(i) # <<>>)
            => \A t \in Sessions : \A j \in 1..Len(written'[t]) :
                  (written'[t][j].by = Cause(s, k) /\ written'[t][j].type = 64)
                  => written'[t][j].msg.state = 2]_vars

\* C15: mapToHub after mapToClient gives back "okay_nabu" and "alexa",
\* mapToClient after mapToHub gives back "okay_nabu_v0.1" and "alexa_v0.1",
\* and each map returns every identifier that is not a key of its direction
\* unchanged.
C15_WakeWordMapping ==
    /\ (mops = <<"client", "ha">> /\ mw0 \in {okay_nabu, alexa}) => mw = mw0
    /\ (mops = <<"ha", "client">> /\ mw0 \in {okay_nabu_v01, alexa_v01}) => mw = mw0
    /\ (mops = <<"client">> /\ mw0 \notin {okay_nabu, alexa}) => mw = mw0
    /\ (mops = <<"ha">> /\ mw0 \notin {okay_nabu_v01, alexa_v01}) => mw = mw0

\* C15 witness: "alexa_v0.1" was mapped to the hub's identifier, which is
\* another identifier, and back.
C15_Witness ==
    /\ mops = <<"ha", "client">>
    /\ mw0 = <<97, 108, 101, 120, 97, 95, 118, 48, 46, 49>>
    /\ mw = mw0

\* C16: a wake_detected control message with wake word w writes exactly one
\* pipeline request (type 90) to the current device session: start true,
\* wake-word phrase mapToHub(w), flags 0, noise suppression 0, auto-gain 0,
\* volume multiplier 1.0; with no current session (none yet, or its
\* transport closed) nothing is written; no other control message writes to
\* a device.
C16_InitiatePipeline ==
    [][Len(control') > Len(control)
        => LET m == control'[Len(control')].msg
           IN  IF /\ m.type = "wake_detected"
                  /\ protocol # NoSession
                  /\ transport[IF protocol = NoSession THEN "A" ELSE protocol] = "open"
               THEN /\ \A t \in Sessions \ {protocol} : written'[t] = written[t]
                    /\ Len(written'[protocol]) = Len(written[protocol]) + 1
                    /\ SubSeq(written'[protocol], 1, Len(written[protocol]))
                          = written[protocol]
                    /\ LET e == written'[protocol][Len(written'[protocol])]
                       IN  /\ e.type = 90
                           /\ e.msg = [start |-> TRUE,
                                       wake_word_phrase |-> _map_ww_to_ha(m.wake_word),
                                       flags |-> 0,
                                       audio_settings |->
                                           [noise_suppression_level |-> 0,
                                            auto_gain |-> 0,
                                            volume_multiplier |-> "1.0"]]
               ELSE written' = written]_vars

\* C16 witness: wake_detected with "okay_nabu_v0.1" was sent by a browser and
\* a pipeline request with the phrase "okay_nabu" was written to the device.
C16_Witness ==
    /\ \E i \in 1..Len(control) :
          /\ control[i].msg.type = "wake_detected"
          /\ control[i].msg.wake_word = okay_nabu_v01
    /\ \E t \in Sessions : \E j \in 1..Len(written[t]) :
          /\ written[t][j].type = 90
          /\ written[t][j].msg.wake_word_phrase
                = <<111, 107, 97, 121, 95, 110, 97, 98, 117>>
          /\ written[t][j].msg.flags = 0

\* the client-side selection in force when packet k of session "A" was
\* handled: set by the last set-configuration before it that chose an
\* identifier, "okay_nabu_v0.1" when there was none
SelectionAt(k) ==
    LET sets == {j \in 1..(k - 1) :
                    /\ handled["A"][j].type = 123
                    /\ ChosenWakeWord(handled["A"][j].data) # <<>>}
    IN  IF sets = {} THEN <<111, 107, 97, 121, 95, 110, 97, 98, 117,
                            95, 118, 48, 46, 49>>
        ELSE LET j == CHOOSE j \in sets : \A j2 \in sets : j2 <= j
             IN  _map_ww_to_client(ChosenWakeWord(handled["A"][j].data))

\* C17: every configuration request (type 121) handled has been answered
\* with nothing but one configuration response (type 122) that lists
\* okay_nabu and alexa as available, has max_active_wake_words 1 and has one
\* active wake word, mapToHub of the selection in force ("okay_nabu" when
\* nothing was selected); and it has been answered whenever the transport
\* was not closed.
C17_ConfigurationResponse ==
    \A k \in 1..Len(handled["A"]) :
        handled["A"][k].type = 121
        => LET e == EmittedOn("A", "A", k)
           IN  /\ Len(e) <= 1
               /\ NoneClosed => Len(e) = 1
               /\ \A i \in 1..Len(e) :
                     /\ e[i].type = 122
                     /\ [j \in 1..Len(e[i].msg.available_wake_words) |->
                            e[i].msg.available_wake_words[j].wake_word]
                          = <<okay_nabu, alexa>>
                     /\ e[i].msg.max_active_wake_words = 1
                     /\ e[i].msg.active_wake_words
                          = <<_map_ww_to_ha(SelectionAt(k))>>

\* C17 witness: "alexa" was selected and the configuration request after it
\* was answered with the active wake word "alexa".
C17_Witness ==
    /\ Len(handled["A"]) = 2
    /\ handled["A"][1] = SetConfiguration
    /\ handled["A"][2].type = 121
    /\ Len(EmittedOn("A", "A", 2)) = 1
    /\ EmittedOn("A", "A", 2)[1].msg.active_wake_words = <<alexa>>

\* the audio broadcasts that the task of playback i has made, in order
BroadcastBy(i) == SelectSeq(bcastLog, LAMBDA b : b.by = PlayCause(i))

\* the messages of a sequence of written frames
MessagesOf(frames) == [j \in 1..Len(frames) |-> frames[j].msg]

\* the playbacks that the handling of packet k of session s created
CreatedBy(s, k) == {i \in 1..Len(playbacks) : playbacks[i].by = Cause(s, k)}

\* C18, the order of the events of one playback: its task writes nothing but
\* media-player states (type 64), at most Playing (key 1, volume 0.5,
\* unmuted) and then Idle; it broadcasts at most once, the bytes fetched, to
\* the clients registered then; the broadcast is made in a step of its own
\* after the fetch succeeded and while nothing is published, Playing is
\* published in a later step, and Idle in a step later still, after the
\* sleep.
C18_Order ==
    \A i \in PlayIds :
        /\ \A j \in 1..Len(written["A"]) :
              written["A"][j].by = PlayCause(i) => written["A"][j].type = 64
        /\ MessagesOf(PublishedBy(i)) \in
              {<<>>, <<MediaPlayerState(2)>>,
               <<MediaPlayerState(2), MediaPlayerState(1)>>}
        /\ Len(BroadcastBy(i)) <= 1
        /\ (PublishedBy(i) # <<>> /\ i \in 1..Len(playbacks))
              => playbacks[i].pc \in {"playing", "done"}

\* C18, the steps of one playback (see C18_Order)
C18_Steps ==
    \A i \in 1..Len(playbacks) :
        /\ BroadcastBy(i)' # BroadcastBy(i)
             => /\ playbacks[i].pc = "fetched"
                /\ PublishedBy(i)' = <<>>
                /\ BroadcastBy(i)'[1].data = playbacks[i].data
                /\ BroadcastBy(i)'[1].targets = clients
                /\ clients # {}
        /\ (playbacks[i].pc = "fetched" /\ playbacks'[i].pc # "fetched")
             => /\ playbacks'[i].pc = "broadcast"
                /\ clients # {} => Len(BroadcastBy(i)') = 1
                /\ \A c \in clients :
                      wsout'[c] = Append(wsout[c], [kind |-> "binary",
                                                   data |-> playbacks[i].data])
        /\ Len(PublishedBy(i)') > Len(PublishedBy(i))
             => /\ BroadcastBy(i)' = BroadcastBy(i)
                /\ Len(PublishedBy(i)') = Len(PublishedBy(i)) + 1
                /\ playbacks[i].pc =
                      (IF PublishedBy(i) = <<>> THEN "broadcast" ELSE "playing")
        /\ (playbacks[i].pc = "broadcast" /\ playbacks'[i].pc # "broadcast"
              /\ NoneClosed)
             => MessagesOf(PublishedBy(i)') = <<MediaPlayerState(2)>>

\* C18, commands: a media-player command (type 65) handled has written
\* nothing itself; with a media URL it has started one playback, without one
\* it has started none.
C18_Commands ==
    \A k \in 1..Len(handled["A"]) :
        handled["A"][k].type = 65
        => /\ EmittedOn("A", "A", k) = <<>>
           /\ handled["A"][k] = MediaCommandUrl => Cardinality(CreatedBy("A", k)) = 1
           /\ handled["A"][k] = MediaCommandNoUrl => CreatedBy("A", k) = {}

\* C18: for a media-player command with a media URL whose fetch succeeds,
\* the bytes fetched are broadcast as binary audio to the browser clients,
\* then Playing (key 1, volume 0.5, unmuted) is published, then the delay
\* elapses, then Idle is published; every Playing published is followed by
\* an Idle published, unless the device connection was closed; a command
\* without a media URL publishes nothing.
C18_MediaPlayback ==
    /\ [](C18_Order /\ C18_Commands)
    /\ [][C18_Steps]_vars
    /\ \A i \in PlayIds :
          (Len(PublishedBy(i)) = 1) ~> (Len(PublishedBy(i)) = 2 \/ ~NoneClosed)

\* C18 witness: a fetch succeeded, the bytes went to a registered browser,
\* and Playing and then Idle were published on the open connection.
C18_Witness ==
    /\ NoneClosed
    /\ Len(playbacks) >= 1
    /\ playbacks[1].pc = "done"
    /\ Len(BroadcastBy(1)) = 1
    /\ BroadcastBy(1)[1].sent # {}
    /\ MessagesOf(PublishedBy(1)) = <<MediaPlayerState(2), MediaPlayerState(1)>>

\* C19, a step in which the fetch of playback i fails changes nothing but
\* the task's own position
FetchFails(i) ==
    /\ playbacks[i].pc = "created"
    /\ playbacks'[i].pc = "failed"

\* C19: when the fetch of a media URL fails (a status other than 200, or an
\* error raised), the failing step writes no frame, broadcasts nothing,
\* starts no other task and leaves the device connection as it was; the task
\* has ended: it never publishes a media-player state, never broadcasts and
\* never fetches again.
C19_FetchFailure ==
    /\ [](\A i \in 1..Len(playbacks) :
            playbacks[i].pc = "failed"
            => /\ PublishedBy(i) = <<>>
               /\ BroadcastBy(i) = <<>>
               /\ \A j \in 1..Len(written["A"]) :
                     written["A"][j].by # PlayCause(i))
    /\ [][\A i \in 1..Len(playbacks) :
            /\ FetchFails(i)
                 => /\ transport' = transport
                    /\ written' = written
                    /\ wsout' = wsout
                    /\ bcastLog' = bcastLog
                    /\ tasks' = tasks
                    /\ Len(playbacks') = Len(playbacks)
                    /\ \A j \in 1..Len(playbacks) :
                          j # i => playbacks'[j] = playbacks[j]
            /\ playbacks[i].pc = "failed" => playbacks'[i] = playbacks[i]]_vars

\* C19 witness: a fetch has failed on an open device connection with a
\* browser registered.
C19_Witness ==
    /\ Len(playbacks) >= 1
    /\ playbacks[1].pc = "failed"
    /\ transport["A"] = "open"
    /\ clients # {}

\* the first message that authenticate accepts
Matches(first) ==
    first.json = "object" /\ first.type = "auth" /\ first.token = auth_token

\* C20: with a token configured, a connection enters the registry only in
\* the step in which its first message was JSON {type: "auth", token} with
\* the configured token and auth_ok was sent to it, and no message of it is
\* routed before; a connection whose first message is anything else, or
\* that sent none in time, is closed with code 1008 and is never in the
\* registry.  With no token configured a connection is registered as soon
\* as it is accepted.
C20_TokenHandshake ==
    /\ [](\A c \in Clients :
            /\ c \in clients => ws[c] \in {"open", "closed"}
            /\ (c \in clients /\ auth_token # NoToken)
                 => /\ Matches(first_message[c])
                    /\ wsout[c] # <<>>
                    /\ wsout[c][1] = [kind |-> "text", data |-> [type |-> "auth_ok"]]
            /\ (auth_token # NoToken /\ first_message[c] # NoMessage
                  /\ ~Matches(first_message[c]))
                 => /\ wsclose[c] = 1008
                    /\ c \notin clients
            /\ wsclose[c] # 0
                 => /\ wsclose[c] = 1008
                    /\ ws[c] = "rejected"
                    /\ c \notin clients
                    /\ \A j \in 1..Len(control) : control[j].client # c
            /\ ws[c] = "authenticating"
                 => /\ wsout[c] = <<>>
                    /\ \A j \in 1..Len(control) : control[j].client # c)
    /\ [][\A c \in Clients :
            /\ ws[c] = "rejected" => (ws'[c] = "rejected" /\ c \notin clients')
            /\ ws'[c] = "rejected" => c \notin clients
            /\ (c \notin clients /\ c \in clients' /\ auth_token # NoToken)
                 => /\ ws[c] = "authenticating"
                    /\ Matches(first_message'[c])
                    /\ wsout'[c] = <<[kind |-> "text", data |-> [type |-> "auth_ok"]]>>
            /\ (auth_token = NoToken /\ ws[c] = "none" /\ ws'[c] # "none")
                 => c \in clients']_vars

\* C20 witness: with a token configured, one connection gave the token, is
\* registered and had a control message routed, and another gave a wrong
\* token and was closed with 1008.
C20_Witness ==
    /\ auth_token = Secret
    /\ "c1" \in clients
    /\ \E j \in 1..Len(control) : control[j].client = "c1"
    /\ first_message["c2"].token = "guess"
    /\ wsclose["c2"] = 1008
    /\ wsout["c2"] = <<[kind |-> "text", data |-> [type |-> "auth_failed"]]>>

\* C21: whenever the handler of a registered browser connection finishes
\* (its receive loop has ended by a close, an error or an exception raised
\* while handling a message), the step removes that connection from the
\* registry and changes the registry in no other way, also when the
\* connection is no longer in it after stop() cleared it; the registry never
\* holds a connection whose handler has finished.
C21_Unregister ==
    /\ [](\A c \in Clients :
            /\ ws[c] = "done" => c \notin clients
            /\ c \in clients => ws[c] \in {"open", "closed"})
    /\ [][\A c \in Clients :
            (ws[c] # "done" /\ ws'[c] = "done")
            => /\ clients' = clients \ {c}
               /\ \A d \in Clients \ {c} : ws'[d] = ws[d]
               /\ wsout' = wsout]_vars

\* C21 witness: both connections were registered, a control message was
\* routed, the server was stopped and both handlers have finished.
C21_Witness ==
    /\ server = "stopped"
    /\ ws["c1"] = "done"
    /\ ws["c2"] = "done"
    /\ control # <<>>
    /\ clients = {}

\* the clients whose send failed in broadcast b
FailedIn(b) == b.targets \ b.sent

\* C22: after a broadcast in which the send to client c failed, c is no
\* longer in the registry, and no later broadcast has c among the clients
\* it sends to.
C22_RemovedOnSendFailure ==
    /\ [][Len(bcastLog') > Len(bcastLog)
           => \A c \in FailedIn(bcastLog'[Len(bcastLog')]) : c \notin clients']_vars
    /\ [](\A i, j \in 1..Len(bcastLog) :
            i < j => FailedIn(bcastLog[i]) \cap bcastLog[j].targets = {})

\* packet k is the first Disconnect request handled on session s
FirstDisconnect(s, k) ==
    /\ handled[s][k].type = 5
    /\ \A j \in 1..(k - 1) : handled[s][j].type # 5

\* C23: a Disconnect request (type 5) handled on an open session, whatever
\* was handled before it (nothing, Hello, or Hello and Connect), has written
\* exactly one frame, a DisconnectResponse (type 6), on the session's own
\* transport and on no other; the transport took the frame, so the write
\* came before the close, and the transport is closed from then on.
C23_Disconnect ==
    \A s \in Sessions : \A k \in 1..Len(handled[s]) :
        FirstDisconnect(s, k)
        => /\ [j \in 1..Len(EmittedOn(s, s, k)) |-> EmittedOn(s, s, k)[j].type] = <<6>>
           /\ \A t \in Sessions \ {s} : EmittedOn(t, s, k) = <<>>
           /\ transport[s] = "closed"
           /\ written[s][Len(written[s])].by = Cause(s, k)

\* C23 witness: a session was left before Hello and another when Ready.
C23_Witness ==
    /\ Len(handled["A"]) = 1
    /\ FirstDisconnect("A", 1)
    /\ Len(handled["B"]) >= 2
    /\ authenticated["B"]
    /\ \E k \in 1..Len(handled["B"]) : FirstDisconnect("B", k)
    /\ transport["A"] = "closed" /\ transport["B"] = "closed"

\* the handling of packet p raises (and the exception is caught and logged):
\* a payload that does not parse, or a set-configuration that reaches
\* self.websocket_server.broadcast_message
Raises(p) ==
    \/ p.type \in {1, 3, 65, 92, 106, 123} /\ ~ParseFromString(p.data).ok
    \/ /\ p.type = 123
       /\ ParseFromString(p.data).ok
       /\ PbRepeated(ParseFromString(p.data).fields, 1) # <<>>
       /\ websocket_server
       /\ ~broadcast_message_defined

RECURSIVE Replay(_, _, _)
\* the packets handled one after the other on session s, from state st
Replay(st, s, packets) ==
    IF packets = <<>> THEN st
    ELSE Replay(_handle_packet(st, s, Head(packets).type, Head(packets).data),
                s, Tail(packets))

\* session A just accepted, nothing handled yet
Accepted ==
    on_connect([Pack([src |-> "", id |-> "", idx |-> 0]) EXCEPT
                   !.transport = [s \in Sessions |-> IF s = "A" THEN "open" ELSE "none"],
                   !.authenticated = [s \in Sessions |-> FALSE],
                   !.written = [s \in Sessions |-> <<>>],
                   !.handled = [s \in Sessions |-> <<>>],
                   !.current_wake_word = [set |-> FALSE, value |-> <<>>],
                   !.tasks = <<>>, !.scheduled = <<>>], "A")

\* the types and messages of a sequence of written frames
FramesOf(frames) ==
    [j \in 1..Len(frames) |-> [type |-> frames[j].type, msg |-> frames[j].msg]]

\* C24: an exception raised while one frame is handled (a payload that does
\* not parse, or an error in the handler) stays with that frame: the
\* transport stays open, every frame sent has been extracted and handled once
\* the bytes are all in, and the frames written, the authenticated flag, the
\* selection and the coroutines scheduled are those of a session that was
\* sent the same frames without the ones whose handling raised.
C24_Contained ==
    transport["A"] # "none"
    => LET kept == SelectSeq(handled["A"], LAMBDA p : ~Raises(p))
           r == Replay(Accepted, "A", kept)
       IN  /\ transport["A"] = "open"
           /\ (wire["A"] = <<>> /\ buffer["A"] = <<>>) => Len(handled["A"]) = nsent
           /\ FramesOf(written["A"]) = FramesOf(r.written["A"])
           /\ authenticated["A"] = r.authenticated["A"]
           /\ current_wake_word = r.current_wake_word
           /\ Len(scheduled) = Len(r.scheduled)

\* C25: once the transport of a device session is closed no frame is
\* written to it any more, the handler no longer holds that session as its
\* current one, and a status reply sent while no device transport is open
\* reports ha_connected false.
C25_SessionEnds ==
    /\ [](\A s \in Sessions : transport[s] = "closed" => protocol # s)
    /\ [][/\ \A s \in Sessions :
               transport[s] = "closed" => written'[s] = written[s]
           /\ \A c \in Clients :
               (/\ Len(wsout'[c]) > Len(wsout[c])
                /\ wsout'[c][Len(wsout'[c])].data.type = "status"
                /\ \A t \in Sessions : transport[t] # "open")
               => ~wsout'[c][Len(wsout'[c])].data.ha_connected]_vars

\* the frames that a step adds to transport t
Added(t) == SubSeq(written'[t], Len(written[t]) + 1, Len(written'[t]))

\* C26: the step that accepts device connection B while A is open makes B
\* the current session and leaves A's transport as it was; once B was
\* accepted every frame that a browser's message causes (the pipeline
\* request, type 90, of initiate_pipeline and the audio, type 106, of
\* send_audio_chunk) is written to B and none to A.
C26_LastConnectWins ==
    [][/\ (transport["B"] = "none" /\ transport'["B"] = "open")
           => /\ protocol' = "B"
              /\ transport'["A"] = transport["A"]
              /\ written' = written
       /\ transport["B"] # "none"
           => /\ \A j \in 1..Len(Added("A")) :
                    Added("A")[j].by.src \notin {"browser", "control"}
              /\ (nmic' # nmic /\ transport["B"] = "open")
                    => /\ Len(Added("B")) = 1
                       /\ Added("B")[1].type = 106
              /\ (/\ Len(control') > Len(control)
                  /\ control'[Len(control')].msg.type = "wake_detected"
                  /\ transport["B"] = "open")
                    => /\ Len(Added("B")) = 1
                       /\ Added("B")[1].type = 90]_vars

\* C26 witness: B was accepted while A was open, A is still open, and a
\* pipeline request and an audio frame caused by browsers are on B, none on A.
C26_Witness ==
    /\ transport["A"] = "open"
    /\ transport["B"] = "open"
    /\ protocol = "B"
    /\ written["A"] = <<>>
    /\ \E j \in 1..Len(written["B"]) : written["B"][j].type = 90
    /\ \E j \in 1..Len(written["B"]) : written["B"][j].type = 106

\* a is the first part of b
IsPrefix(a, b) == Len(a) <= Len(b) /\ a = SubSeq(b, 1, Len(a))

\* C27: on a stream of well-formed frames, after any feeds and reads, the
\* frames that came out followed by the buffer followed by the bytes not yet
\* fed are the stream: the buffer is exactly what was fed and not consumed.
\* The frames come out in feed order; a read that returns a frame takes
\* exactly that frame's bytes off the front of the buffer and a read that
\* returns nothing takes none; once all was fed and a read has returned
\* nothing, every complete frame has come out and the buffer holds the part
\* of the frame that was cut.
C27_BufferInvariant ==
    /\ [](/\ IsPrefix(EncodeAll(cout) \o cbuf \o cstream, EncodeAll(cframes))
          /\ IsPrefix(cout, cframes)
          /\ (cstream = <<>> /\ cidle)
               => \/ cout = cframes /\ cbuf = <<>>
                  \/ /\ Len(cout) < Len(cframes)
                     /\ Len(cbuf) < Len(EncodeAll(<<cframes[Len(cout) + 1]>>)))
    /\ [][/\ EncodeAll(cout') \o cbuf' \o cstream' = EncodeAll(cout) \o cbuf \o cstream
          /\ cstream' = cstream
               => IF cout' = cout THEN cbuf' = cbuf
                  ELSE /\ Len(cout') = Len(cout) + 1
                       /\ cbuf = EncodeAll(<<cout'[Len(cout')]>>) \o cbuf']_vars

\* C27 witness: one chunk held two complete frames and a part of a third;
\* the two frames came out in order and the buffer holds the part.
C27_Witness ==
    /\ cfeeds = 1 /\ cstream = <<>> /\ cidle
    /\ Len(cframes) = 3
    /\ cout = SubSeq(cframes, 1, 2)
    /\ cout[1] # cout[2]
    /\ cbuf # <<>>

\* the set-configuration requests before packet k of session "A" that chose
\* an identifier
SetsBefore(k) ==
    {j \in 1..(k - 1) : /\ handled["A"][j].type = 123
                        /\ ChosenWakeWord(handled["A"][j].data) # <<>>}

\* C28: a configuration response to a request that follows a
\* set-configuration choosing the hub identifier h (whatever non-empty
\* string h is) reports h as its single active wake word, until the next
\* set-configuration.
C28_ConfigurationEcho ==
    \A k \in 1..Len(handled["A"]) :
        (handled["A"][k].type = 121 /\ SetsBefore(k) # {})
        => LET j == CHOOSE j \in SetsBefore(k) : \A j2 \in SetsBefore(k) : j2 <= j
               h == ChosenWakeWord(handled["A"][j].data)
               e == EmittedOn("A", "A", k)
           IN  \A i \in 1..Len(e) : e[i].msg.active_wake_words = <<h>>

\* the media-player states the playback tasks have published, in order
PublishedStates ==
    SelectSeq(written["A"], LAMBDA e : e.by.src = "play" /\ e.type = 64)

\* C29: while a playback that has published Playing is still inside its
\* delay, the media-player state published last is Playing: no task
\* publishes Idle while another one is inside its delay.
C29_OverlappingPlaybacks ==
    (\E i \in 1..Len(playbacks) :
        playbacks[i].pc = "playing" /\ PublishedBy(i) # <<>>)
    => PublishedStates[Len(PublishedStates)].msg.state = 2

====
